---- MODULE Spec2Model ----
(***************************************************************************)
(* A model of bevy_ecs_ldtk: the LDtk project / external level asset       *)
(* loaders (src/src/assets), the coordinate and defaulting utilities       *)
(* (src/src/utils.rs) and the tile makers (src/src/tile_makers.rs).        *)
(*                                                                         *)
(* Six specifications share the module, one per part of the program:       *)
(*   Spec               the project loader and the level lookups           *)
(*   SpecExternalLevel  the external level loader and data()               *)
(*   SpecLookup         the defaulting lookup of utils.rs                  *)
(*   SpecGrid           the integer coordinate conversions of utils.rs     *)
(*   SpecTiles          the tile makers of tile_makers.rs and              *)
(*                      set_all_tiles_with_func of utils.rs                *)
(*   SpecTransform      the translations and transforms of utils.rs        *)
(* Each one holds the variables of the other parts at their idle values.   *)
(***************************************************************************)
EXTENDS Integers, Sequences, FiniteSets, TLC

(***************************************************************************)
(* Option<T>: None, or Some(v).                                            *)
(***************************************************************************)
None == <<>>

Some(x) == <<x>>

IsSome(o) == o # <<>>

\* Option::unwrap, on a value that is Some
Unwrap(o) == o[1]

\* Option::or_else: the alternative is evaluated only when o is None.
OrElse(o, alt) == IF IsSome(o) THEN o ELSE alt

\* Option::unwrap_or
UnwrapOr(o, d) == IF IsSome(o) THEN Unwrap(o) ELSE d

(***************************************************************************)
(* The state of the program, one group of variables per part.              *)
(***************************************************************************)
VARIABLES
  \* -- (utils.rs, defaulting lookup)
  registry,    \* the HashMap<(Option<A>, Option<B>), L> handed to the lookup
  lk_default,  \* the value behind the `default` reference
  lk_query,    \* the (a, b) of the last call, <<0, 0>> before any call
  lk_via,      \* which function the last call went through
  lk_result,   \* what the last call on the registry returned (Option<&L>)
  tf_result,   \* what the last call on test_func returned (Option<i32>)
  \* -- (utils.rs, coordinate conversions)
  overflow_checks,  \* whether the build panics on arithmetic overflow
  gr_fn,            \* the conversion last called, "none" before any call
  gr_index,         \* its index argument (int_grid_index_to_tile_pos)
  gr_width,         \* its width argument (int_grid_index_to_tile_pos)
  gr_height,        \* its height argument
  gr_coords,        \* its coordinate argument (the two-way conversions)
  gr_result,        \* what it returned
  \* -- (assets/ldtk_project.rs, the project loader)
  external_levels_feature,  \* cfg!(feature = "external_levels")
  manifest,         \* what the bytes of the .ldtk file hold
  pl_pc,            \* where LdtkProjectLoader::load stands
  pl_error,         \* the error it returned, "none" when none
  pl_level_index,   \* the level_index of the loop over data.levels
  level_map,        \* its local IndexMap<String, LevelMetadata>
  background_images,     \* its local Vec of background image paths
  external_level_paths,  \* its local Vec of external level paths
  tileset_rel_paths,     \* its local Vec of tileset image paths
  tileset_map,      \* its local HashMap<i32, Handle<Image>>
  pl_warnings,      \* the warn! lines it logged
  labeled_assets,   \* the labels given to load_context.set_labeled_asset
  project_asset,    \* the asset given to load_context.set_default_asset
  pl_publish_count, \* how many times set_default_asset was called
  \* -- (assets/ldtk_external_level.rs, the external level loader)
  el_bytes,         \* what the bytes of the .ldtkl file hold
  el_pc,            \* where LdtkExternalLevelLoader::load stands
  el_error,         \* the error it returned, "none" when none
  el_asset,         \* the asset given to load_context.set_default_asset
  el_data,          \* what LdtkExternalLevel::data() returned on that asset
  \* -- (tile_makers.rs, the tile makers)
  tl_args,          \* the arguments the makers are built from
  tl_pc,            \* how far the makers are built
  grid_tile_map,    \* the HashMap<TilePos, TileInstance> of the tile maker
  ig_i,             \* the index the enumeration of int_grid_csv stands at
  nonzero_map,      \* the HashMap<TilePos, bool> of the bundle maker
  tl_fn,            \* the maker last called, "none" before any call
  tl_cell,          \* the TilePos it was called with
  tl_tile,          \* what the tile maker returned in that call (Option<Tile>)
  tl_bundle,        \* what the bundle maker returned (Option<TileBundle>)
  \* -- (utils.rs, set_all_tiles_with_func)
  sa_pc,            \* "Idle", "Setting" (in the loops) or "Done"
  sa_size,          \* map_size_in_tiles
  sa_x,             \* the x of the outer loop
  sa_y,             \* the y of the inner loop
  sa_func_calls,    \* the TilePos func was called with, in call order
  sa_maker_calls,   \* the TilePos the wrapped tile maker was called with
  sa_tiles,         \* the tiles set in the layer builder, by TilePos
  \* -- (utils.rs, the conversions to translations and transforms)
  tr_fn,            \* the conversion last called, "none" before any call
  tr_entity,        \* the arguments of calculate_transform_from_entity_instance
  tr_transform,     \* the Transform it returned
  tr_grid,          \* the arguments of the grid-to-translation conversions
  tr_corner,        \* what ldtk_grid_coords_to_translation returned
  tr_centered       \* what ldtk_grid_coords_to_translation_centered returned

lookupVars == <<registry, lk_default, lk_query, lk_via, lk_result, tf_result>>

gridVars ==
  <<overflow_checks, gr_fn, gr_index, gr_width, gr_height, gr_coords, gr_result>>

projectVars ==
  <<external_levels_feature, manifest, pl_pc, pl_error, pl_level_index,
    level_map, background_images, external_level_paths, tileset_rel_paths,
    tileset_map, pl_warnings, labeled_assets, project_asset, pl_publish_count>>

externalVars == <<el_bytes, el_pc, el_error, el_asset, el_data>>

\* What the calls of one part leave alone: the state of the other parts.
tileVars ==
  <<tl_args, tl_pc, grid_tile_map, ig_i, nonzero_map, tl_fn, tl_cell, tl_tile,
    tl_bundle>>

transformVars ==
  <<tr_fn, tr_entity, tr_transform, tr_grid, tr_corner, tr_centered>>

setVars ==
  <<sa_pc, sa_size, sa_x, sa_y, sa_func_calls, sa_maker_calls, sa_tiles>>

notLookup == <<gridVars, projectVars, externalVars, tileVars, transformVars,
  setVars>>

notGrid == <<lookupVars, projectVars, externalVars, tileVars, transformVars,
  setVars>>

notProject == <<lookupVars, gridVars, externalVars, tileVars, transformVars,
  setVars>>

notExternal == <<lookupVars, gridVars, projectVars, tileVars, transformVars,
  setVars>>

notTiles == <<lookupVars, gridVars, projectVars, externalVars, transformVars,
  setVars>>

notSet ==
  <<lookupVars, gridVars, projectVars, externalVars, tileVars, transformVars>>

notTransform == <<lookupVars, gridVars, projectVars, externalVars, tileVars,
  setVars>>

(***************************************************************************)
(* ---------------------------------------------------------------------- *)
(* Defaulting lookup (utils.rs, try_each_optional_permutation and          *)
(* ldtk_map_get_or_default).                                               *)
(* ---------------------------------------------------------------------- *)
(***************************************************************************)

\* Keys of either kind are 1..MaxKey; a registry holds at most MaxRegs entries.
MaxKey == 2

MaxRegs == 3

KeyVals == 1..MaxKey

OptKeys == {None} \cup {Some(k) : k \in KeyVals}

\* The key type of the registry: (Option<A>, Option<B>).
RegKeys == OptKeys \X OptKeys

\* The registered values (the L of HashMap<(Option<A>, Option<B>), L>).
Handlers == {"h1", "h2"}

\* A reference &L: the place it points at (an entry of the registry, or the
\* caller's default) and the value found there.
RefEntry(key, val) == [kind |-> "entry", key |-> key, val |-> val]

RefDefault(val) == [kind |-> "default", key |-> <<None, None>>, val |-> val]

\* The arguments the unit test passes (utils.rs 385-392).
TestArgs == 1..5

TestKeys ==
  LET O == {None} \cup {Some(k) : k \in TestArgs} IN O \X O

\* The registrations of the example: handlers for (Some(1), None),
\* (None, Some(3)) and (None, None).
ExampleRegistries ==
  [{<<Some(1), None>>, <<None, Some(3)>>, <<None, None>>} -> Handlers]

Registries ==
  UNION {[S -> Handlers] : S \in {T \in SUBSET RegKeys : Cardinality(T) <= MaxRegs}}

\* HashMap::get on the registry: a reference to the entry, or None.
MapGet(map, key) ==
  IF key \in DOMAIN map THEN Some(RefEntry(key, map[key])) ELSE None

\* The closure |x, y| map.get(&(x, y)) of ldtk_map_get_or_default.
MapGetClosure(map) == [k \in RegKeys \cup TestKeys |-> MapGet(map, k)]

try_each_optional_permutation_FirstKeyFirst(a, b, func) ==
  OrElse(OrElse(OrElse(func[<<Some(a), Some(b)>>],
                       func[<<Some(a), None>>]),
                func[<<None, Some(b)>>]),
         func[<<None, None>>])

\* utils.rs 196-209; func is the closure, given as the table of its results.
try_each_optional_permutation(a, b, func) ==
  OrElse(OrElse(OrElse(func[<<Some(a), Some(b)>>],
                       func[<<None, Some(b)>>]),
                func[<<Some(a), None>>]),
         func[<<None, None>>])

ldtk_map_get_or_default_NoGeneric(a, b, default, map) ==
  UnwrapOr(try_each_optional_permutation(
             a, b, MapGetClosure([k \in DOMAIN map \ {<<None, None>>} |-> map[k]])),
           RefDefault(default))

\* utils.rs 218-229
ldtk_map_get_or_default(a, b, default, map) ==
  UnwrapOr(try_each_optional_permutation(a, b, MapGetClosure(map)),
           RefDefault(default))

\* utils.rs 373-383, the function of test_try_each_optional_permutation
test_func ==
  [k \in TestKeys |->
     LET a == k[1]
         b == k[2]
     IN  CASE IsSome(a) /\ IsSome(b) /\ Unwrap(a) = 1 -> Some(1)
           [] IsSome(a) /\ IsSome(b) -> None
           [] IsSome(a) /\ ~IsSome(b) /\ Unwrap(a) = 2 -> Some(2)
           [] IsSome(a) /\ ~IsSome(b) -> None
           [] ~IsSome(a) /\ IsSome(b) /\ Unwrap(b) = 3 -> Some(3)
           [] ~IsSome(a) /\ IsSome(b) -> None
           [] OTHER -> Some(4)]

\* A call of ldtk_map_get_or_default(a, b, &default, &registry).
GetOrDefault(a, b) ==
  /\ lk_via = "none"
  /\ lk_query' = <<a, b>>
  /\ lk_via' = "get_or_default"
  /\ lk_result' = Some(ldtk_map_get_or_default(a, b, lk_default, registry))
  /\ UNCHANGED <<registry, lk_default, tf_result, notLookup>>

\* A call of try_each_optional_permutation(a, b, |x, y| registry.get(&(x, y))).
TryEachOnRegistry(a, b) ==
  /\ lk_via = "none"
  /\ lk_query' = <<a, b>>
  /\ lk_via' = "try_each"
  /\ lk_result' = try_each_optional_permutation(a, b, MapGetClosure(registry))
  /\ UNCHANGED <<registry, lk_default, tf_result, notLookup>>

\* A call of try_each_optional_permutation(a, b, test_func), as in the unit test.
TryEachOnTestFunc(a, b) ==
  /\ lk_via = "none"
  /\ registry = <<>>
  /\ lk_query' = <<a, b>>
  /\ lk_via' = "test_func"
  /\ tf_result' = try_each_optional_permutation(a, b, test_func)
  /\ UNCHANGED <<registry, lk_default, lk_result, notLookup>>

\* The order in which the four keys are to be tried for the pair (a, b).
PermutationOrder(a, b) ==
  << <<Some(a), Some(b)>>, <<None, Some(b)>>, <<Some(a), None>>, <<None, None>> >>

\* The positions of PermutationOrder(a, b) at which func answers.
Answering(a, b, func) ==
  {i \in 1..4 : IsSome(func[PermutationOrder(a, b)[i]])}

FirstOf(S) == CHOOSE i \in S : \A j \in S : i <= j

\* What the claim expects of a lookup of (a, b) through func.
FirstAnswer(a, b, func) ==
  IF Answering(a, b, func) = {}
  THEN None
  ELSE func[PermutationOrder(a, b)[FirstOf(Answering(a, b, func))]]

\* C1: ldtk_map_get_or_default returns the entry registered under the first of
\* (Some a, Some b), (None, Some b), (Some a, None), (None, None) present in
\* the registry, and the default exactly when none of the four is present;
\* try_each_optional_permutation returns the first non-None result of func in
\* that order (None when func answers for none of the four).
C1_FirstRegisteredWins ==
  LET a == lk_query[1]
      b == lk_query[2]
      ord == PermutationOrder(a, b)
      present == {i \in 1..4 : ord[i] \in DOMAIN registry}
  IN  /\ lk_via = "get_or_default" =>
            /\ IsSome(lk_result)
            /\ (Unwrap(lk_result).kind = "default") <=> (present = {})
            /\ present = {} => Unwrap(lk_result) = RefDefault(lk_default)
            /\ present # {} =>
                  /\ Unwrap(lk_result).key = ord[FirstOf(present)]
                  /\ Unwrap(lk_result).val = registry[ord[FirstOf(present)]]
      /\ lk_via = "try_each" =>
            lk_result = FirstAnswer(a, b, MapGetClosure(registry))
      /\ lk_via = "test_func" => tf_result = FirstAnswer(a, b, test_func)

\* C1 witness: (None, Some b) and (Some a, None) are both registered, (Some a,
\* Some b) is not, and the lookup returned the (None, Some b) entry.
C1_Witness ==
  /\ lk_via = "get_or_default"
  /\ <<None, Some(lk_query[2])>> \in DOMAIN registry
  /\ <<Some(lk_query[1]), None>> \in DOMAIN registry
  /\ <<Some(lk_query[1]), Some(lk_query[2])>> \notin DOMAIN registry
  /\ registry[<<None, Some(lk_query[2])>>] # registry[<<Some(lk_query[1]), None>>]
  /\ Unwrap(lk_result).key = <<None, Some(lk_query[2])>>

\* The registry is the example's: (Some(1), None), (None, Some(3)) and
\* (None, None) are registered and nothing else is.
ExampleRegistered == registry \in ExampleRegistries

\* The pair looked up has no partial match: a # 1 and b # 3.
NoPartialMatch == lk_query[1] # 1 /\ lk_query[2] # 3

\* C14 (as claimed): with handlers registered for (Some(1), None),
\* (None, Some(3)) and (None, None), a defaulting lookup of a pair (a, b)
\* with a # 1 and b # 3 returns the default.
C14_NoPartialMatchGivesDefault ==
  (lk_via = "get_or_default" /\ ExampleRegistered /\ NoPartialMatch) =>
    lk_result = Some(RefDefault(lk_default))

\* C14 (amended): with those three handlers registered, a defaulting lookup
\* of a pair (a, b) with a # 1 and b # 3 returns the handler registered for
\* (None, None), whatever the default is.
C14_NoPartialMatchGivesGeneric ==
  (lk_via = "get_or_default" /\ ExampleRegistered /\ NoPartialMatch) =>
    lk_result = Some(RefEntry(<<None, None>>, registry[<<None, None>>]))

\* C14 witness: such a lookup, with a default that differs from the handler
\* registered for (None, None).
C14_Witness ==
  /\ lk_via = "get_or_default"
  /\ ExampleRegistered
  /\ NoPartialMatch
  /\ lk_default # registry[<<None, None>>]
  /\ IsSome(lk_result)
  /\ Unwrap(lk_result).val = registry[<<None, None>>]

(***************************************************************************)
(* ---------------------------------------------------------------------- *)
(* Integer coordinate conversions (utils.rs).                              *)
(* ---------------------------------------------------------------------- *)
(* A 32-bit value is held as its bit pattern read as a signed integer, so  *)
(* the casts `as i32`, `as u32`, as_ivec2 and as_uvec2 between the two     *)
(* 32-bit types keep the value as it is; an unsigned value below 2^31 is   *)
(* the number itself.  A usize index is the pair of its 32-bit words       *)
(* [hi, lo], index = hi * 2^32 + lo, and `index as u32` keeps the low      *)
(* word.  An arithmetic overflow panics when the build checks overflow     *)
(* (debug) and wraps when it does not (release).                           *)
(***************************************************************************)

\* Indexes have low words 0..MaxIndex; widths, heights and coordinates go up
\* to MaxDim (and a few large values named below).
MaxIndex == 9

MaxDim == 3

B16 == 2^16

MaxI32 == (2^30 - 1) + 2^30

MinI32 == (-MaxI32) - 1

Lo16(n) == n % B16

Hi16(n) == n \div B16

\* The middle 16-bit column of the product a * b, carry of the low one included.
MulMid(a, b) == Hi16(a) * Lo16(b) + Lo16(a) * Hi16(b) + Hi16(Lo16(a) * Lo16(b))

\* Whether the u32 product a * b exceeds 32 bits (a, b below 2^31).
MulOverflowsU32(a, b) == Hi16(a) * Hi16(b) > 0 \/ MulMid(a, b) >= B16

\* Whether the low 32 bits of the product a * b are all zero.
WrappingMulIsZero(a, b) ==
  Lo16(Lo16(a) * Lo16(b)) = 0 /\ Lo16(MulMid(a, b)) = 0

\* Whether the i32 difference a - b leaves the i32 range.
SubOverflowsI32(a, b) ==
  \/ b < 0 /\ a > MaxI32 + b
  \/ b > 0 /\ a < MinI32 + b

\* The i32 difference a - b, wrapped to 32 bits.
WrappingSubI32(a, b) ==
  IF ~SubOverflowsI32(a, b) THEN a - b
  ELSE IF b < 0 THEN (a - MaxI32 - 1) - (b + MaxI32 + 1)
  ELSE (a + MaxI32 + 1) - (b - MaxI32 - 1)

\* A 2-vector (IVec2, UVec2, TilePos), or the panic that ended its computation.
Vec(x, y) == [panic |-> FALSE, x |-> x, y |-> y]

Panicked == [panic |-> TRUE, x |-> 0, y |-> 0]

\* The result of an Option<TilePos>-valued call.
ResNone == [kind |-> "none", x |-> 0, y |-> 0]

ResSome(p) == [kind |-> "some", x |-> p.x, y |-> p.y]

ResPanic == [kind |-> "panic", x |-> 0, y |-> 0]

ResIdle == [kind |-> "idle", x |-> 0, y |-> 0]

\* utils.rs 103-105: IVec2::new(coords.x, height - coords.y - 1)
ldtk_coord_conversion(coords, height, checks) ==
  LET d == WrappingSubI32(height, coords.y)
  IN  IF checks /\ (SubOverflowsI32(height, coords.y) \/ SubOverflowsI32(d, 1))
      THEN Panicked
      ELSE Vec(coords.x, WrappingSubI32(d, 1))

\* utils.rs 115-118
ldtk_grid_coords_to_tile_pos(ldtk_coords, ldtk_grid_height, checks) ==
  ldtk_coord_conversion(ldtk_coords, ldtk_grid_height, checks)

\* utils.rs 120-123
tile_pos_to_ldtk_grid_coords(tile_pos, ldtk_grid_height, checks) ==
  ldtk_coord_conversion(tile_pos, ldtk_grid_height, checks)

\* `index as u32`
IndexAsU32(index) == index.lo

\* utils.rs 17-45
int_grid_index_to_tile_pos(index, w, h, checks) ==
  IF checks /\ MulOverflowsU32(w, h) THEN ResPanic
  ELSE IF WrappingMulIsZero(w, h) THEN ResNone
  ELSE LET tile_x == IndexAsU32(index) % w
           inverted_y == (IndexAsU32(index) - tile_x) \div w
           pos == ldtk_grid_coords_to_tile_pos(Vec(tile_x, inverted_y), h, checks)
       IN  IF h > inverted_y
           THEN (IF pos.panic THEN ResPanic ELSE ResSome(pos))
           ELSE ResNone

Usize(hi, lo) == [hi |-> hi, lo |-> lo]

\* The calls of the unit tests (utils.rs 237-254).
IntGridTestCalls ==
  { <<3, 4, 5>>, <<10, 5, 5>>, <<49, 10, 5>>, <<64, 100, 1>>, <<35, 1, 100>>,
    <<3, 0, 5>>, <<3, 5, 0>>, <<25, 5, 5>> }

GridIndexes == {Usize(hh, l) : hh \in 0..1, l \in 0..MaxIndex}

GridDims == (0..MaxDim) \cup {B16}

IntGridCalls ==
  (GridIndexes \X GridDims \X GridDims)
    \cup {<<Usize(0, t[1]), t[2], t[3]>> : t \in IntGridTestCalls}

GridCoords == {Vec(x, y) : x \in -1..MaxDim, y \in -1..MaxDim}

GridHeights == (0..MaxDim) \cup {MaxI32}

\* A call of int_grid_index_to_tile_pos(index, w, h).
IntGridIndexToTilePos(index, w, h) ==
  /\ gr_fn = "none"
  /\ gr_fn' = "int_grid_index_to_tile_pos"
  /\ gr_index' = index
  /\ gr_width' = w
  /\ gr_height' = h
  /\ gr_result' = int_grid_index_to_tile_pos(index, w, h, overflow_checks)
  /\ UNCHANGED <<overflow_checks, gr_coords, notGrid>>

\* A call of ldtk_grid_coords_to_tile_pos(c, h).
GridCoordsToTilePos(c, h) ==
  /\ gr_fn = "none"
  /\ gr_fn' = "ldtk_grid_coords_to_tile_pos"
  /\ gr_coords' = c
  /\ gr_height' = h
  /\ gr_result' =
       LET p == ldtk_grid_coords_to_tile_pos(c, h, overflow_checks)
       IN  IF p.panic THEN ResPanic ELSE ResSome(p)
  /\ UNCHANGED <<overflow_checks, gr_index, gr_width, notGrid>>

\* A call of tile_pos_to_ldtk_grid_coords(p, h).
TilePosToGridCoords(p, h) ==
  /\ gr_fn = "none"
  /\ gr_fn' = "tile_pos_to_ldtk_grid_coords"
  /\ gr_coords' = p
  /\ gr_height' = h
  /\ gr_result' =
       LET c == tile_pos_to_ldtk_grid_coords(p, h, overflow_checks)
       IN  IF c.panic THEN ResPanic ELSE ResSome(c)
  /\ UNCHANGED <<overflow_checks, gr_index, gr_width, notGrid>>

\* The assertions of test_int_grid_index_to_tile_pos and
\* test_int_grid_index_out_of_range (utils.rs 235-255), in either build.
IntGridUnitTests ==
  \A checks \in BOOLEAN :
    /\ int_grid_index_to_tile_pos(Usize(0, 3), 4, 5, checks) = ResSome(Vec(3, 4))
    /\ int_grid_index_to_tile_pos(Usize(0, 10), 5, 5, checks) = ResSome(Vec(0, 2))
    /\ int_grid_index_to_tile_pos(Usize(0, 49), 10, 5, checks) = ResSome(Vec(9, 0))
    /\ int_grid_index_to_tile_pos(Usize(0, 64), 100, 1, checks) = ResSome(Vec(64, 0))
    /\ int_grid_index_to_tile_pos(Usize(0, 35), 1, 100, checks) = ResSome(Vec(0, 64))
    /\ int_grid_index_to_tile_pos(Usize(0, 3), 0, 5, checks) = ResNone
    /\ int_grid_index_to_tile_pos(Usize(0, 3), 5, 0, checks) = ResNone
    /\ int_grid_index_to_tile_pos(Usize(0, 25), 5, 5, checks) = ResNone

\* Whether the index is below w * h (w, h > 0), without forming the product.
IndexBelowArea(index, w, h) == index.hi = 0 /\ index.lo \div w < h

\* C7: int_grid_index_to_tile_pos(index, w, h) returns the cell
\* (index mod w, h - 1 - (index div w)) when w > 0, h > 0 and index < w * h,
\* and None (not a failure) when w = 0, or h = 0, or index >= w * h.
C7_IndexToCell ==
  gr_fn = "int_grid_index_to_tile_pos" =>
    IF gr_width > 0 /\ gr_height > 0 /\ IndexBelowArea(gr_index, gr_width, gr_height)
    THEN gr_result = ResSome(Vec(gr_index.lo % gr_width,
                                 gr_height - 1 - (gr_index.lo \div gr_width)))
    ELSE gr_result = ResNone

\* The part of C7 the code keeps: the claim, for an index that fits 32 bits and
\* a width and height whose product fits 32 bits.
C7_IndexToCell_In32Bits ==
  (gr_fn = "int_grid_index_to_tile_pos" /\ gr_index.hi = 0
     /\ ~MulOverflowsU32(gr_width, gr_height)) =>
    IF gr_width > 0 /\ gr_height > 0 /\ IndexBelowArea(gr_index, gr_width, gr_height)
    THEN gr_result = ResSome(Vec(gr_index.lo % gr_width,
                                 gr_height - 1 - (gr_index.lo \div gr_width)))
    ELSE gr_result = ResNone

\* The grid coordinates tile_pos_to_ldtk_grid_coords gives back for the cell
\* the last call returned.
BackToGrid ==
  tile_pos_to_ldtk_grid_coords(Vec(gr_result.x, gr_result.y), gr_height,
                               overflow_checks)

\* The first half of C8, for the grid coordinates c and height h of the last
\* call: the cell converts back to c.
GridRoundTrip ==
  (gr_fn = "ldtk_grid_coords_to_tile_pos" /\ gr_height > 0
     /\ gr_coords.x >= 0 /\ gr_coords.y >= 0 /\ gr_coords.y < gr_height) =>
    /\ gr_result.kind = "some"
    /\ BackToGrid = gr_coords

\* The second half of C8, for the index, width and height of the last call:
\* the cell converts back to grid coordinates g with g.y * w + g.x = index.
IndexRoundTrip ==
  (gr_fn = "int_grid_index_to_tile_pos" /\ gr_width > 0 /\ gr_height > 0
     /\ IndexBelowArea(gr_index, gr_width, gr_height)) =>
    /\ gr_result.kind = "some"
    /\ ~BackToGrid.panic
    /\ BackToGrid.y * gr_width + BackToGrid.x = gr_index.lo

\* C8: grid-to-cell and cell-to-grid conversion are exact inverses: for h > 0
\* and c with c.x >= 0 and 0 <= c.y < h, converting c to a cell and back gives
\* c; and for w * h > 0 and index < w * h, the cell of the index converts back
\* to grid coordinates g with g.y * w + g.x = index.
C8_RoundTrip == GridRoundTrip /\ IndexRoundTrip

\* The part of C8 the code keeps: the first half as it is, the second half for
\* a width and height whose product fits 32 bits.
C8_RoundTrip_In32Bits ==
  /\ GridRoundTrip
  /\ ~MulOverflowsU32(gr_width, gr_height) => IndexRoundTrip

(***************************************************************************)
(* ---------------------------------------------------------------------- *)
(* The project loader (assets/ldtk_project.rs).                            *)
(* ---------------------------------------------------------------------- *)
(* LdtkProjectLoader::load runs in steps: it parses the bytes and checks   *)
(* the storage mode, resolves the levels of data.levels one by one,        *)
(* resolves the tilesets, and hands the project asset to the load context. *)
(* The external_levels feature is a value of the state, so both builds are *)
(* covered.                                                                *)
(***************************************************************************)

\* A manifest holds up to MaxLevels levels and up to MaxTilesets tilesets.
MaxLevels == 2

MaxTilesets == 3

\* ldtk_project.rs 20-22: the path of the .ldtk file's directory joined with
\* the relative path.
ldtk_path_to_asset_path(rel_path) == <<"project_dir", rel_path>>

\* load_context.get_handle(asset_path)
GetHandle(asset_path) == [handle_to |-> asset_path]

\* A Level of the manifest (ldtk::Level): the fields the loader reads.
Level(iid, layer_instances, external_rel_path, bg_rel_path) ==
  [iid |-> iid, layer_instances |-> layer_instances,
   external_rel_path |-> external_rel_path, bg_rel_path |-> bg_rel_path]

\* A TilesetDefinition of the manifest: the fields the loader reads.
Tileset(uid, rel_path, embed_atlas) ==
  [uid |-> uid, rel_path |-> rel_path, embed_atlas |-> embed_atlas]

\* The parsed LdtkJson: the fields the loader and the lookups read.  A file
\* serde_json cannot parse is NotJson.
LdtkJson(external_levels, levels, worlds, tilesets) ==
  [parses |-> TRUE, external_levels |-> external_levels, levels |-> levels,
   worlds |-> worlds, tilesets |-> tilesets]

NotJson ==
  [parses |-> FALSE, external_levels |-> FALSE, levels |-> <<>>,
   worlds |-> <<>>, tilesets |-> <<>>]

\* LevelIndices (assets/level_map.rs): the optional world index and the level
\* index, as LevelIndices::new stores them.
LevelIndices(world_index, level_index) ==
  [world_index |-> world_index, level_index |-> level_index]

\* LevelMetadata (assets/level_map.rs), as LevelMetadata::new stores it; the
\* external handle is there in an external_levels build only.
LevelMetadata(bg_image, indices, external_handle) ==
  [bg_image |-> bg_image, indices |-> indices, external_handle |-> external_handle]

\* A reference &Level into the project's data: the list it lies in and its
\* position there.
LevelRef(world_index, level_index) ==
  [world_index |-> world_index, level_index |-> level_index]

\* The levels a manifest is built of.
Iids == {"iid_a", "iid_b", "iid_c"}

LayerChoices == {None, Some(<<"Tiles">>)}

PathChoices(rel) == {None, Some(rel)}

Levels ==
  {Level(i, l, e, b) :
     i \in Iids, l \in LayerChoices,
     e \in PathChoices("level.ldtkl"), b \in PathChoices("background.png")}

TilesetUids == {1, 2}

Tilesets ==
  {Tileset(u, r, e) :
     u \in TilesetUids, r \in PathChoices("tiles.png"),
     e \in {None, Some("LdtkIcons")}}

SeqsUpTo(S, n) == UNION {[1..k -> S] : k \in 0..n}

\* A level with both inline layers and an external file: either build takes it.
CompleteLevel(iid) ==
  Level(iid, Some(<<"Tiles">>), Some("level.ldtkl"), None)

\* The worlds of a multi-world project.
WorldChoices ==
  { <<>>, <<[levels |-> <<CompleteLevel("iid_a"), CompleteLevel("iid_b")>>]>> }

\* The files given to the loader: any list of up to MaxLevels levels with a
\* fixed pair of tilesets,
ManifestsOfLevels ==
  {LdtkJson(x, ls, ws, <<Tileset(1, Some("tiles.png"), None), Tileset(2, None, None)>>) :
     x \in BOOLEAN, ls \in SeqsUpTo(Levels, MaxLevels), ws \in WorldChoices}

\* or any list of up to MaxTilesets tilesets with a level either build takes
\* (and a file that is not JSON, NotJson).
ManifestsOfTilesets ==
  {LdtkJson(x, ls, <<>>, ts) :
     x \in BOOLEAN, ls \in {<<>>, <<CompleteLevel("iid_a")>>},
     ts \in SeqsUpTo(Tilesets, MaxTilesets)}

\* IndexMap: the entries in insertion order.
IndexMapPosition(map, key) ==
  IF \E p \in 1..Len(map) : map[p].key = key
  THEN CHOOSE p \in 1..Len(map) : map[p].key = key
  ELSE 0

\* IndexMap::insert: a key already there keeps its position and takes the new
\* value; a new key goes to the end.
IndexMapInsert(map, key, value) ==
  IF IndexMapPosition(map, key) # 0
  THEN [map EXCEPT ![IndexMapPosition(map, key)].value = value]
  ELSE Append(map, [key |-> key, value |-> value])

\* IndexMap::get
IndexMapGet(map, key) ==
  IF IndexMapPosition(map, key) # 0
  THEN Some(map[IndexMapPosition(map, key)].value)
  ELSE None

IndexMapGetIndex_FromOne(map, index) ==
  IF index >= 1 /\ index <= Len(map) THEN Some(map[index]) ELSE None

\* IndexMap::get_index (index counted from 0)
IndexMapGetIndex(map, index) ==
  IF index < Len(map) THEN Some(map[index + 1]) ELSE None

\* ldtk_project.rs 125-136: the background image path and handle of a level.
BgImagePath(level) ==
  IF IsSome(level.bg_rel_path)
  THEN Some(ldtk_path_to_asset_path(Unwrap(level.bg_rel_path)))
  ELSE None

BgImage(level) ==
  IF IsSome(level.bg_rel_path)
  THEN Some(GetHandle(ldtk_path_to_asset_path(Unwrap(level.bg_rel_path))))
  ELSE None

\* What load_level_metadata ends with.
MetadataOk(bg_image_path, external_level_path, level_metadata) ==
  [kind |-> "ok", error |-> "none", bg_image_path |-> bg_image_path,
   external_level_path |-> external_level_path, level_metadata |-> level_metadata]

MetadataErr(error) ==
  [kind |-> "err", error |-> error, bg_image_path |-> None,
   external_level_path |-> None,
   level_metadata |-> LevelMetadata(None, LevelIndices(None, 0), None)]

MetadataPanic ==
  [kind |-> "panic", error |-> "none", bg_image_path |-> None,
   external_level_path |-> None,
   level_metadata |-> LevelMetadata(None, LevelIndices(None, 0), None)]

load_level_metadata_NoNullCheck(feature, level_indices, level) ==
  IF feature
  THEN IF ~IsSome(level.external_rel_path)
       THEN MetadataPanic
       ELSE MetadataOk(
              BgImagePath(level),
              Some(ldtk_path_to_asset_path(Unwrap(level.external_rel_path))),
              LevelMetadata(
                BgImage(level), level_indices,
                Some(GetHandle(ldtk_path_to_asset_path(Unwrap(level.external_rel_path))))))
  ELSE MetadataOk(BgImagePath(level), None,
                  LevelMetadata(BgImage(level), level_indices, None))

\* ldtk_project.rs 120-170
load_level_metadata(feature, level_indices, level) ==
  IF feature
  THEN \* 138-154: level.external_rel_path.as_ref().expect("TODO")
       IF ~IsSome(level.external_rel_path)
       THEN MetadataPanic
       ELSE MetadataOk(
              BgImagePath(level),
              Some(ldtk_path_to_asset_path(Unwrap(level.external_rel_path))),
              LevelMetadata(
                BgImage(level), level_indices,
                Some(GetHandle(ldtk_path_to_asset_path(Unwrap(level.external_rel_path))))))
  ELSE \* 156-169
       IF ~IsSome(level.layer_instances)
       THEN MetadataErr("InternalLevelWithNullLayers")
       ELSE MetadataOk(BgImagePath(level), None,
                       LevelMetadata(BgImage(level), level_indices, None))

\* Vec::push of an Option's content, when there is one (ldtk_project.rs 201-206).
PushIfSome(vec, opt) == IF IsSome(opt) THEN Append(vec, Unwrap(opt)) ELSE vec

\* What the loop over data.defs.tilesets has built so far.
TilesetAcc(rel_paths, map, warnings) ==
  [rel_paths |-> rel_paths, map |-> map, warnings |-> warnings]

TilesetStep_EmbedCounts(acc, tileset) ==
  IF IsSome(tileset.rel_path) \/ IsSome(tileset.embed_atlas)
  THEN TilesetAcc(
         Append(acc.rel_paths, ldtk_path_to_asset_path("tiles.png")),
         (tileset.uid :> GetHandle(ldtk_path_to_asset_path("tiles.png"))) @@ acc.map,
         acc.warnings)
  ELSE TilesetAcc(acc.rel_paths, acc.map, Append(acc.warnings, "null relative path"))

\* ldtk_project.rs 212-224: one pass of the loop body.
TilesetStep(acc, tileset) ==
  IF IsSome(tileset.rel_path)
  THEN TilesetAcc(
         Append(acc.rel_paths, ldtk_path_to_asset_path(Unwrap(tileset.rel_path))),
         (tileset.uid :> GetHandle(ldtk_path_to_asset_path(Unwrap(tileset.rel_path))))
           @@ acc.map,
         acc.warnings)
  ELSE IF IsSome(tileset.embed_atlas)
  THEN TilesetAcc(acc.rel_paths, acc.map, Append(acc.warnings, "Internal_Icons"))
  ELSE TilesetAcc(acc.rel_paths, acc.map, Append(acc.warnings, "null relative path"))

\* ldtk_project.rs 210-224: the loop over the first n tilesets.
RECURSIVE TilesetLoop(_, _)
TilesetLoop(tilesets, n) ==
  IF n = 0 THEN TilesetAcc(<<>>, <<>>, <<>>)
  ELSE TilesetStep(TilesetLoop(tilesets, n - 1), tilesets[n])

\* The LdtkProject asset (ldtk_project.rs 32-41) with the dependencies
\* LoadedAsset is given (237-242).
LdtkProject(data, tilesets, levels, int_grid_image_handle, dependencies) ==
  [data |-> data, tileset_map |-> tilesets, level_map |-> levels,
   int_grid_image_handle |-> int_grid_image_handle, dependencies |-> dependencies]

ModeCheck_Skipped(data, feature) == "none"

\* ldtk_project.rs 181-185: the error of the storage mode check, "none" when
\* the manifest's mode is the build's.
ModeCheck(data, feature) ==
  IF data.external_levels /\ ~feature THEN "ExternalLevelProject"
  ELSE IF ~data.external_levels /\ feature THEN "InternalLevelProject"
  ELSE "none"

\* ldtk_project.rs 179-191: parse the bytes, check the storage mode, and set
\* up the empty collections.
StartLoad ==
  /\ pl_pc = "Unresolved"
  /\ IF ~manifest.parses
     THEN pl_pc' = "Failed" /\ pl_error' = "serde_json::Error"
     ELSE IF ModeCheck(manifest, external_levels_feature) # "none"
     THEN pl_pc' = "Failed"
          /\ pl_error' = ModeCheck(manifest, external_levels_feature)
     ELSE pl_pc' = "Resolving" /\ pl_error' = "none"
  /\ UNCHANGED <<external_levels_feature, manifest, pl_level_index, level_map,
                 background_images, external_level_paths, tileset_rel_paths,
                 tileset_map, pl_warnings, labeled_assets, project_asset,
                 pl_publish_count>>
  /\ UNCHANGED notProject

\* ldtk_project.rs 194-208: one pass of the loop over data.levels.
ResolveLevel ==
  /\ pl_pc = "Resolving"
  /\ pl_level_index < Len(manifest.levels)
  /\ LET level == manifest.levels[pl_level_index + 1]
         res == load_level_metadata(external_levels_feature,
                                    LevelIndices(None, pl_level_index), level)
     IN  CASE res.kind = "err" ->
                /\ pl_pc' = "Failed"
                /\ pl_error' = res.error
                /\ UNCHANGED <<pl_level_index, level_map, background_images,
                               external_level_paths>>
           [] res.kind = "panic" ->
                /\ pl_pc' = "Panicked"
                /\ UNCHANGED <<pl_error, pl_level_index, level_map,
                               background_images, external_level_paths>>
           [] OTHER ->
                /\ background_images' =
                     PushIfSome(background_images, res.bg_image_path)
                /\ external_level_paths' =
                     PushIfSome(external_level_paths, res.external_level_path)
                /\ level_map' =
                     IndexMapInsert(level_map, level.iid, res.level_metadata)
                /\ pl_level_index' = pl_level_index + 1
                /\ UNCHANGED <<pl_pc, pl_error>>
  /\ UNCHANGED <<external_levels_feature, manifest, tileset_rel_paths,
                 tileset_map, pl_warnings, labeled_assets, project_asset,
                 pl_publish_count>>
  /\ UNCHANGED notProject

\* ldtk_project.rs 210-224: the loop over data.defs.tilesets.
ResolveTilesets ==
  /\ pl_pc = "Resolving"
  /\ pl_level_index = Len(manifest.levels)
  /\ LET built == TilesetLoop(manifest.tilesets, Len(manifest.tilesets))
     IN  /\ tileset_rel_paths' = built.rel_paths
         /\ tileset_map' = built.map
         /\ pl_warnings' = built.warnings
  /\ pl_pc' = "Publishing"
  /\ UNCHANGED <<external_levels_feature, manifest, pl_error, pl_level_index,
                 level_map, background_images, external_level_paths,
                 labeled_assets, project_asset, pl_publish_count>>
  /\ UNCHANGED notProject

\* ldtk_project.rs 226-243: the int grid image, when create_int_grid_image
\* makes one, becomes a labeled asset; the project becomes the default asset.
Publish(with_int_grid_image) ==
  /\ pl_pc = "Publishing"
  /\ labeled_assets' =
       IF with_int_grid_image THEN labeled_assets \cup {"int_grid_image"}
       ELSE labeled_assets
  /\ project_asset' =
       Some(LdtkProject(
              manifest, tileset_map, level_map,
              IF with_int_grid_image
              THEN Some(GetHandle(<<"label", "int_grid_image">>)) ELSE None,
              tileset_rel_paths \o external_level_paths \o background_images))
  /\ pl_publish_count' = pl_publish_count + 1
  /\ pl_pc' = "Resolved"
  /\ UNCHANGED <<external_levels_feature, manifest, pl_error, pl_level_index,
                 level_map, background_images, external_level_paths,
                 tileset_rel_paths, tileset_map, pl_warnings>>
  /\ UNCHANGED notProject

\* ldtk_project.rs 56-65; the result is a reference into project.data.
get_raw_level_by_indices(project, indices) ==
  IF IsSome(indices.world_index)
  THEN IF Unwrap(indices.world_index) < Len(project.data.worlds)
          /\ indices.level_index
               < Len(project.data.worlds[Unwrap(indices.world_index) + 1].levels)
       THEN Some(LevelRef(indices.world_index, indices.level_index))
       ELSE None
  ELSE IF indices.level_index < Len(project.data.levels)
       THEN Some(LevelRef(None, indices.level_index))
       ELSE None

\* ldtk_project.rs 67-71
get_raw_level_by_iid(project, iid) ==
  IF IsSome(IndexMapGet(project.level_map, iid))
  THEN get_raw_level_by_indices(
         project, Unwrap(IndexMapGet(project.level_map, iid)).indices)
  ELSE None

\* ldtk_project.rs 73-77
get_raw_level_by_index(project, index) ==
  IF IsSome(IndexMapGetIndex(project.level_map, index))
  THEN get_raw_level_by_indices(
         project, Unwrap(IndexMapGetIndex(project.level_map, index)).value.indices)
  ELSE None

\* The Level a reference points at.
Deref(project, ref) ==
  IF IsSome(ref.world_index)
  THEN project.data.worlds[Unwrap(ref.world_index) + 1].levels[ref.level_index + 1]
  ELSE project.data.levels[ref.level_index + 1]

\* The published project (when there is one).
Project == Unwrap(project_asset)

Published == IsSome(project_asset)

LevelPositions == 0..(Len(manifest.levels) - 1)

\* The three lookups all give the level at position i of data.levels.
LookupsGive(i) ==
  /\ get_raw_level_by_index(Project, i) = Some(LevelRef(None, i))
  /\ get_raw_level_by_iid(Project, manifest.levels[i + 1].iid)
       = Some(LevelRef(None, i))
  /\ get_raw_level_by_indices(Project, LevelIndices(None, i))
       = Some(LevelRef(None, i))

DistinctIids ==
  \A i \in LevelPositions, j \in LevelPositions :
    manifest.levels[i + 1].iid = manifest.levels[j + 1].iid => i = j

\* C2 (as claimed): after a successful load, for every position i of the flat
\* level list and k the iid of the level there, get_raw_level_by_index(i),
\* get_raw_level_by_iid(k) and get_raw_level_by_indices((no world, i)) all
\* return the i-th level, for every manifest the loader accepts.
C2_LookupsAgree ==
  Published => \A i \in LevelPositions : LookupsGive(i)

\* C2 (amended): the same, for every accepted manifest whose levels have
\* pairwise distinct iids.
C2_LookupsAgree_DistinctIids ==
  (Published /\ DistinctIids) => \A i \in LevelPositions : LookupsGive(i)

\* C2 witness: a published project of two levels with distinct iids.
C2_Witness ==
  /\ Published
  /\ DistinctIids
  /\ Len(manifest.levels) = 2
  /\ get_raw_level_by_index(Project, 1) = Some(LevelRef(None, 1))

ModesMatch == manifest.external_levels = external_levels_feature

\* C3: the load checks the manifest's storage mode against the build's before
\* it resolves any level: external levels declared without the feature fail
\* with ExternalLevelProject, inline levels declared with the feature fail with
\* InternalLevelProject, in both cases no level metadata is built and no asset
\* is published; when the modes match neither error occurs.
C3_ModeMismatchIsFatal ==
  (pl_pc # "Unresolved" /\ manifest.parses) =>
    /\ ~ModesMatch =>
         /\ pl_pc = "Failed"
         /\ pl_error = IF manifest.external_levels
                       THEN "ExternalLevelProject" ELSE "InternalLevelProject"
         /\ level_map = <<>>
         /\ pl_level_index = 0
         /\ ~Published
         /\ pl_publish_count = 0
    /\ ModesMatch =>
         pl_error \notin {"ExternalLevelProject", "InternalLevelProject"}

\* C3 witness: a manifest with levels that declares external levels has failed
\* in a build without the feature.
C3_Witness ==
  /\ pl_pc = "Failed"
  /\ pl_error = "ExternalLevelProject"
  /\ Len(manifest.levels) > 0
  /\ ~external_levels_feature

NullLayerPositions ==
  {i \in LevelPositions : ~IsSome(manifest.levels[i + 1].layer_instances)}

InlineMode == manifest.parses /\ ~external_levels_feature /\ ModesMatch

\* C4: in inline mode, a level with null layer instances at any position makes
\* the load end with InternalLevelWithNullLayers and the asset is never
\* published, even when earlier levels were resolved; the asset is published
\* at most once, only after every level has been resolved without error, with
\* the whole index in it.
C4_NullLayersAbortUnpublished ==
  /\ (InlineMode /\ NullLayerPositions # {}) =>
       /\ ~Published
       /\ pl_pc \in {"Unresolved", "Resolving", "Failed"}
       /\ pl_pc = "Failed" => pl_error = "InternalLevelWithNullLayers"
       /\ pl_pc = "Resolving" =>
            \A i \in NullLayerPositions : pl_level_index <= i
  /\ pl_publish_count <= 1
  /\ Published <=> pl_publish_count = 1
  /\ Published =>
       /\ pl_pc = "Resolved"
       /\ pl_error = "none"
       /\ pl_level_index = Len(manifest.levels)
       /\ Project.level_map = level_map
       /\ \A i \in LevelPositions :
            IsSome(IndexMapGet(Project.level_map, manifest.levels[i + 1].iid))

\* C4 witness: the second level has null layers, the first was resolved, and
\* the load has failed.
C4_Witness ==
  /\ InlineMode
  /\ NullLayerPositions = {1}
  /\ pl_pc = "Failed"
  /\ pl_error = "InternalLevelWithNullLayers"
  /\ Len(level_map) = 1
  /\ ~Published

TilesetPositions == 1..Len(manifest.tilesets)

UidsWithPath ==
  {manifest.tilesets[t].uid : t \in {u \in TilesetPositions :
                                       IsSome(manifest.tilesets[u].rel_path)}}

\* Every level is one the build can resolve.
LevelsValid ==
  \A i \in LevelPositions :
    IF external_levels_feature
    THEN IsSome(manifest.levels[i + 1].external_rel_path)
    ELSE IsSome(manifest.levels[i + 1].layer_instances)

\* C5: a tileset that cannot be resolved never fails the load: a load whose
\* levels are valid succeeds, and the keys of tileset_map are exactly the uids
\* of the tilesets that have a relative path.
C5_TilesetsSkippedNotFatal ==
  /\ (manifest.parses /\ ModesMatch /\ LevelsValid) =>
       pl_pc \in {"Unresolved", "Resolving", "Publishing", "Resolved"}
  /\ pl_pc \in {"Publishing", "Resolved"} => DOMAIN tileset_map = UidsWithPath
  /\ Published => DOMAIN Project.tileset_map = UidsWithPath

\* C5 witness: a published project whose manifest has a tileset with a path, a
\* tileset with only the embedded-icon marker and a tileset with neither.
C5_Witness ==
  /\ Published
  /\ \E t \in TilesetPositions :
       ~IsSome(manifest.tilesets[t].rel_path) /\ IsSome(manifest.tilesets[t].embed_atlas)
  /\ \E t \in TilesetPositions :
       ~IsSome(manifest.tilesets[t].rel_path) /\ ~IsSome(manifest.tilesets[t].embed_atlas)
  /\ UidsWithPath # {}
  /\ Len(pl_warnings) = 2

\* The project uses the multi-world layout: levels are stored under
\* worlds[].levels.
MultiWorld == \E w \in 1..Len(manifest.worlds) : Len(manifest.worlds[w].levels) > 0

\* The level list the indices point into: that world's, or the flat one.
RelevantLevels(indices) ==
  IF IsSome(indices.world_index)
  THEN IF Unwrap(indices.world_index) < Len(manifest.worlds)
       THEN manifest.worlds[Unwrap(indices.world_index) + 1].levels
       ELSE <<>>
  ELSE manifest.levels

\* The level index is the position, in the relevant list, of a level of the
\* entry's iid.
IndexIsPosition(entry) ==
  LET indices == entry.value.indices
  IN  /\ indices.level_index < Len(RelevantLevels(indices))
      /\ RelevantLevels(indices)[indices.level_index + 1].iid = entry.key

\* C13: in every LevelMetadata a project load builds, the world index of its
\* LevelIndices is present if and only if the project uses the multi-world
\* layout, and the level index is the level's position within the relevant
\* level list (that world's, or the flat list when there is no world).
C13_WorldIndexIffMultiWorld ==
  \A p \in 1..Len(level_map) :
    /\ IsSome(level_map[p].value.indices.world_index) <=> MultiWorld
    /\ IndexIsPosition(level_map[p])

\* What the code does: every LevelMetadata has no world index and the
\* position of its level in the flat list, multi-world layout or not.
C13_FlatIndicesOnly ==
  \A p \in 1..Len(level_map) :
    /\ level_map[p].value.indices.world_index = None
    /\ IndexIsPosition(level_map[p])

\* The variants of LdtkProjectLoaderError (ldtk_project.rs 100-109).
LdtkProjectLoaderError ==
  {"InternalLevelProject", "ExternalLevelProject", "InternalLevelWithNullLayers"}

\* External mode: an external_levels build on a manifest declaring external
\* levels.
ExternalMode == manifest.parses /\ external_levels_feature /\ ModesMatch

NoPathPositions ==
  {i \in LevelPositions : ~IsSome(manifest.levels[i + 1].external_rel_path)}

\* The load cannot resolve its levels: the storage modes differ, or a level
\* has no inline layer data in inline mode, or a level has no external-level
\* path in external mode.
LevelResolutionFails ==
  /\ manifest.parses
  /\ \/ ~ModesMatch
     \/ InlineMode /\ NullLayerPositions # {}
     \/ ExternalMode /\ NoPathPositions # {}

\* The load has ended the way a failed load is to end: an error value of the
\* loader's error type, no crash, nothing published.
EndsWithLoaderError ==
  /\ pl_pc \notin {"Panicked", "Resolved", "Publishing"}
  /\ pl_pc = "Failed" => pl_error \in LdtkProjectLoaderError
  /\ ~Published

\* C16: every way the load can fail while resolving levels (storage-mode
\* mismatch, a level without inline layer data in inline mode, a level
\* without an external-level path in external mode) aborts the load with an
\* error value of the loader's error type, never with an unhandled crash,
\* and no project asset is published.
C16_LevelFailuresAreErrors == LevelResolutionFails => EndsWithLoaderError

\* What the code does: the first two ways end with an error value; the third
\* (external mode) ends in a panic, with nothing published.
C16_InlineFailuresAreErrors ==
  /\ (LevelResolutionFails /\ ~ExternalMode) => EndsWithLoaderError
  /\ (ExternalMode /\ NoPathPositions # {}) =>
       (pl_pc \in {"Idle", "Unresolved", "Resolving", "Panicked"} /\ ~Published)
  /\ pl_pc = "Panicked" => (ExternalMode /\ NoPathPositions # {})

(***************************************************************************)
(* ---------------------------------------------------------------------- *)
(* The external level loader (assets/ldtk_external_level.rs).              *)
(* ---------------------------------------------------------------------- *)
(* LdtkExternalLevelLoader::load parses the bytes of a .ldtkl file as one  *)
(* Level, rejects it when its layer instances are null and publishes an    *)
(* LdtkExternalLevel otherwise; LdtkExternalLevel::data() converts the     *)
(* asset's level to a LoadedLevel.                                         *)
(***************************************************************************)

\* A level file holds up to MaxLayers layer instances.
MaxLayers == 2

LayerTypes == {"IntGrid", "Tiles"}

\* What serde_json::from_slice makes of the bytes: a Level, or an error.
LevelJson(level) == [parses |-> TRUE, level |-> level]

NotLevelJson == [parses |-> FALSE, level |-> Level("", None, None, None)]

\* The files given to the loader.
LevelFiles ==
  {LevelJson(Level(i, l, e, b)) :
     i \in Iids,
     l \in {None} \cup {Some(ls) : ls \in SeqsUpTo(LayerTypes, MaxLayers)},
     e \in PathChoices("level.ldtkl"), b \in PathChoices("background.png")}
  \cup {NotLevelJson}

\* ldtk_external_level.rs 19-22
LdtkExternalLevel(data) == [data |-> data]

\* The result of a call of data(): no call yet, a LoadedLevel, or a panic.
DataIdle == [kind |-> "idle", iid |-> "", layer_instances |-> <<>>]

DataPanic == [kind |-> "panic", iid |-> "", layer_instances |-> <<>>]

\* LoadedLevel (ldtk/loaded_level.rs): a level whose layer instances are there.
LoadedLevel(level) ==
  [kind |-> "loaded", iid |-> level.iid,
   layer_instances |-> Unwrap(level.layer_instances)]

\* LoadedLevel::try_from(&Level): fails when the layer instances are null.
LoadedLevel_try_from(level) ==
  IF IsSome(level.layer_instances) THEN Some(LoadedLevel(level)) ELSE None

\* ldtk_external_level.rs 30-33: try_from(..).expect(..)
LdtkExternalLevel_data(asset) ==
  IF IsSome(LoadedLevel_try_from(asset.data))
  THEN Unwrap(LoadedLevel_try_from(asset.data))
  ELSE DataPanic

NullLayersCheck_Skipped(data) == "none"

\* ldtk_external_level.rs 58-60
NullLayersCheck(data) ==
  IF ~IsSome(data.layer_instances) THEN "NullLayers" ELSE "none"

\* ldtk_external_level.rs 50-69: LdtkExternalLevelLoader::load
LoadExternalLevel ==
  /\ el_pc = "Unloaded"
  /\ IF ~el_bytes.parses
     THEN /\ el_pc' = "Failed"
          /\ el_error' = "serde_json::Error"
          /\ el_asset' = el_asset
     ELSE IF NullLayersCheck(el_bytes.level) # "none"
     THEN /\ el_pc' = "Failed"
          /\ el_error' = NullLayersCheck(el_bytes.level)
          /\ el_asset' = el_asset
     ELSE /\ el_pc' = "Loaded"
          /\ el_error' = el_error
          /\ el_asset' = Some(LdtkExternalLevel(el_bytes.level))
  /\ UNCHANGED <<el_bytes, el_data>>
  /\ UNCHANGED notExternal

\* A reader of the published asset calls data().
CallData ==
  /\ IsSome(el_asset)
  /\ el_data = DataIdle
  /\ el_data' = LdtkExternalLevel_data(Unwrap(el_asset))
  /\ UNCHANGED <<el_bytes, el_pc, el_error, el_asset>>
  /\ UNCHANGED notExternal

\* C6: the external level loader rejects a payload whose layer instances are
\* null with NullLayers and publishes no asset for it; every published
\* LdtkExternalLevel has non-null layer instances, and data() on it never
\* fails: it returns the payload's layer instances.
C6_NullLayersRejected ==
  /\ (el_pc \in {"Loaded", "Failed"} /\ el_bytes.parses
        /\ ~IsSome(el_bytes.level.layer_instances)) =>
       /\ el_pc = "Failed"
       /\ el_error = "NullLayers"
       /\ ~IsSome(el_asset)
  /\ IsSome(el_asset) =>
       /\ el_pc = "Loaded"
       /\ Unwrap(el_asset).data = el_bytes.level
       /\ IsSome(Unwrap(el_asset).data.layer_instances)
  /\ el_data.kind # "panic"
  /\ el_data.kind = "loaded" =>
       /\ el_data.iid = el_bytes.level.iid
       /\ Some(el_data.layer_instances) = el_bytes.level.layer_instances

\* C6 witness: a payload that parses and has null layer instances was rejected.
C6_Witness ==
  /\ el_pc = "Failed"
  /\ el_error = "NullLayers"
  /\ el_bytes.parses
  /\ ~IsSome(el_bytes.level.layer_instances)
  /\ ~IsSome(el_asset)

(***************************************************************************)
(* ---------------------------------------------------------------------- *)
(* The tile makers (tile_makers.rs).                                       *)
(* ---------------------------------------------------------------------- *)
(* tile_pos_to_tile_maker collects the tile instances of a layer into a    *)
(* map from cell to instance and returns the closure that looks a cell up; *)
(* tile_pos_to_tile_bundle_if_int_grid_nonzero_maker enumerates the int    *)
(* grid values into a map from cell to "non-zero" and returns the closure  *)
(* that asks the wrapped tile maker where the map says true.               *)
(***************************************************************************)

\* A layer holds up to MaxTiles tile instances; the makers are called with the
\* cells (0..MaxCell) x (0..MaxCell), and an int grid is up to MaxCell wide and
\* high.
MaxTiles == 2

MaxCell == 2

TilePos(x, y) == <<x, y>>

\* TileInstance: the fields the tile maker reads.
TileInstance(px, src, f) == [px |-> px, src |-> src, f |-> f]

\* TilesetDefinition: the fields the tile maker reads.
TilesetDefinition(tile_grid_size, c_wid) ==
  [tile_grid_size |-> tile_grid_size, c_wid |-> c_wid]

\* Tile (bevy_ecs_tilemap); Tile::default() is visible, unflipped, index 0.
Tile(texture_index, flip_x, flip_y, visible) ==
  [texture_index |-> texture_index, flip_x |-> flip_x, flip_y |-> flip_y,
   visible |-> visible]

\* TileBundle { tile, ..Default::default() }
TileBundle(tile) == [tile |-> tile]

\* i32 division (rounds toward zero), for a positive divisor.
DivI32(a, b) == IF a >= 0 THEN a \div b ELSE 0 - ((0 - a) \div b)

\* u32 values are held as their 32-bit patterns: a < b as unsigned numbers.
LessU32(a, b) == IF (a < 0) = (b < 0) THEN a < b ELSE b < 0

\* `value as u16`
AsU16(value) == value % B16

\* tile_makers.rs 27-32
tile_pos_to_invisible_tile(tile_pos) == Some(Tile(0, FALSE, FALSE, FALSE))

\* tile_makers.rs 50-53: the key of an instance; the u32 subtractions panic in
\* an overflow-checking build and wrap otherwise.
GridTileKey(t, layer_height_in_tiles, layer_grid_size, checks) ==
  LET row == DivI32(t.px[2], layer_grid_size)
      d   == WrappingSubI32(layer_height_in_tiles, row)
  IN  IF checks /\ (LessU32(layer_height_in_tiles, row) \/ LessU32(d, 1))
      THEN Panicked
      ELSE Vec(DivI32(t.px[1], layer_grid_size), WrappingSubI32(d, 1))

HashMapInsert_KeepFirst(map, key, value) == map @@ (key :> value)

\* HashMap::insert: the new value takes the place of the one under the key.
HashMapInsert(map, key, value) == (key :> value) @@ map

CollectOk(map) == [panic |-> FALSE, map |-> map]

CollectPanic == [panic |-> TRUE, map |-> <<>>]

\* tile_makers.rs 46-58: collect() of the first n instances, in input order.
RECURSIVE GridTileMap(_, _, _, _, _)
GridTileMap(grid_tiles, n, layer_height_in_tiles, layer_grid_size, checks) ==
  IF n = 0 THEN CollectOk(<<>>)
  ELSE LET before == GridTileMap(grid_tiles, n - 1, layer_height_in_tiles,
                                 layer_grid_size, checks)
           key == GridTileKey(grid_tiles[n], layer_height_in_tiles,
                              layer_grid_size, checks)
       IN  IF before.panic \/ key.panic THEN CollectPanic
           ELSE CollectOk(HashMapInsert(before.map, TilePos(key.x, key.y),
                                        grid_tiles[n]))

FlipX(f) == f = 1 \/ f = 3

FlipY(f) == f = 2 \/ f = 3

\* tile_makers.rs 62-63, 71: (tileset_y * tileset_width_in_tiles + tileset_x)
\* as u16.  The i32 product and sum stay in range for the inputs below.
TextureIndex(tile_instance, tileset_definition) ==
  AsU16(DivI32(tile_instance.src[2], tileset_definition.tile_grid_size)
          * tileset_definition.c_wid
          + DivI32(tile_instance.src[1], tileset_definition.tile_grid_size))

\* tile_makers.rs 60-79: the closure tile_pos_to_tile_maker returns.
TileMakerClosure(map, tileset_definition, tile_pos) ==
  IF tile_pos \in DOMAIN map
  THEN Some(Tile(TextureIndex(map[tile_pos], tileset_definition),
                 FlipX(map[tile_pos].f), FlipY(map[tile_pos].f), TRUE))
  ELSE None

\* The tile maker the arguments name, called at tile_pos.
tile_maker(args, map, tile_pos) ==
  IF args.maker = "tile_pos_to_invisible_tile"
  THEN tile_pos_to_invisible_tile(tile_pos)
  ELSE TileMakerClosure(map, args.tileset_definition, tile_pos)

\* Option::map(|tile| TileBundle { tile, .. })
MapToBundle(tile) == IF IsSome(tile) THEN Some(TileBundle(Unwrap(tile))) ELSE None

\* int_grid_csv: its length (a usize) and its first values; the values beyond
\* the ones written out are 0.
Csv(len, vals) == [len |-> len, vals |-> vals]

CsvOf(vals) == Csv(Usize(0, Len(vals)), vals)

CsvAt(csv, i) == IF i < Len(csv.vals) THEN csv.vals[i + 1] ELSE 0

\* i < len for the enumeration index i (below 2^31) and a usize len.
IndexBelowLen(i, len) == len.hi > 0 \/ i < len.lo

IntGrid(csv, w, h) ==
  [int_grid_csv |-> csv, layer_width_in_tiles |-> w, layer_height_in_tiles |-> h]

\* The arguments: which tile maker, the arguments of tile_pos_to_tile_maker, and
\* the int grid handed to tile_pos_to_tile_bundle_if_int_grid_nonzero_maker
\* (None: the tile maker is wrapped by tile_pos_to_tile_bundle_maker).
TileArgs(maker, h, g, tileset_definition, grid_tiles, int_grid) ==
  [maker |-> maker, layer_height_in_tiles |-> h, layer_grid_size |-> g,
   tileset_definition |-> tileset_definition, grid_tiles |-> grid_tiles,
   int_grid |-> int_grid]

NoTileArgs ==
  TileArgs("tile_pos_to_invisible_tile", 1, 1, TilesetDefinition(1, 1), <<>>, None)

\* The cells the makers are called with.
Cells == {TilePos(x, y) : x \in 0..MaxCell, y \in 0..MaxCell}

LayerGridSizes == {1, 2}

LayerHeights == {1, 2}

\* Instances at the first pixel of the first cell and the last pixel of the
\* second, with one of two tiles of the tileset.
PlacedTiles(g) ==
  {TileInstance(<<x, y>>, <<sx, 0>>, 0) :
     x \in {0, 2 * g - 1}, y \in {0, 2 * g - 1}, sx \in {0, 1}}

SrcVals == {0, 1, 2, 5}

FlipCodes == 0..4

\* The arguments of the unit tests (tile_makers.rs 133-222).
TileMakerTestArgs ==
  { TileArgs("tile_pos_to_tile_maker", 2, 32, TilesetDefinition(32, 3),
             << TileInstance(<<0, 0>>, <<32, 0>>, 0),
                TileInstance(<<32, 0>>, <<32, 32>>, 0),
                TileInstance(<<0, 32>>, <<64, 0>>, 0),
                TileInstance(<<32, 32>>, <<32, 0>>, 0) >>, None),
    TileArgs("tile_pos_to_tile_maker", 2, 32, TilesetDefinition(16, 1),
             << TileInstance(<<0, 0>>, <<0, 0>>, 0),
                TileInstance(<<32, 0>>, <<0, 0>>, 1),
                TileInstance(<<0, 32>>, <<0, 0>>, 2),
                TileInstance(<<64, 0>>, <<0, 0>>, 3) >>, None) }

\* The int grids: every array of zeros and sevens for a layer of up to MaxCell
\* by MaxCell cells, and an array of 2^32 values for a layer of 65536 by 65536.
IntGridsOfLayers ==
  UNION {{IntGrid(CsvOf(vals), w, h) : vals \in [1..(w * h) -> {0, 7}]} :
           w \in 1..MaxCell, h \in 1..MaxCell}

HugeIntGrid == IntGrid(Csv(Usize(1, 0), <<7>>), B16, B16)

\* The int grids whose array is one value shorter or longer than the layer.
IntGridsOffByOne ==
  UNION {{IntGrid(CsvOf(vals), w, h) :
            vals \in [1..(w * h - 1) -> {0, 7}] \cup [1..(w * h + 1) -> {0, 7}]} :
           w \in 1..MaxCell, h \in 1..MaxCell}

\* The tile makers wrapped over an int grid of height h.
WrappedMakers(h) ==
  {TileArgs("tile_pos_to_invisible_tile", h, 1, TilesetDefinition(1, 3), <<>>, None)}
  \cup
  {TileArgs("tile_pos_to_tile_maker", h, 1, TilesetDefinition(1, 3), ts, None) :
     ts \in { <<>>, <<TileInstance(<<0, 0>>, <<1, 0>>, 0)>>,
              <<TileInstance(<<0, 0>>, <<1, 0>>, 0),
                TileInstance(<<1, 0>>, <<2, 0>>, 1)>> }}

\* The arguments the makers are built from: lists of placed instances for
\* layers of either height and grid size; one instance with any source
\* position and flip code for tilesets of several tile sizes and widths; the
\* unit tests; int grids over each kind of tile maker; and int grids of the
\* wrong length over the invisible tile maker.
TileCalls ==
  UNION {{TileArgs("tile_pos_to_tile_maker", h, g, TilesetDefinition(1, 3), ts, None) :
            h \in LayerHeights, ts \in SeqsUpTo(PlacedTiles(g), MaxTiles)} :
           g \in LayerGridSizes}
  \cup
  {TileArgs("tile_pos_to_tile_maker", 1, 1, TilesetDefinition(s, w),
            <<TileInstance(<<0, 0>>, <<sx, sy>>, f)>>, None) :
     s \in {1, 2}, w \in {1, 3, B16}, sx \in SrcVals, sy \in SrcVals,
     f \in FlipCodes}
  \cup TileMakerTestArgs
  \cup
  UNION {{[m EXCEPT !.int_grid = Some(ig)] :
            m \in WrappedMakers(ig.layer_height_in_tiles)} :
           ig \in IntGridsOfLayers}
  \cup
  {[m EXCEPT !.int_grid = Some(HugeIntGrid)] : m \in WrappedMakers(1)}
  \cup
  {TileArgs("tile_pos_to_invisible_tile", ig.layer_height_in_tiles, 1,
            TilesetDefinition(1, 3), <<>>, Some(ig)) : ig \in IntGridsOffByOne}

\* tile_makers.rs 37-58: tile_pos_to_tile_maker builds its map (the invisible
\* tile maker is a plain function and builds nothing).
MakeTileMaker ==
  /\ tl_pc = "Start"
  /\ LET built == GridTileMap(tl_args.grid_tiles, Len(tl_args.grid_tiles),
                              tl_args.layer_height_in_tiles,
                              tl_args.layer_grid_size, overflow_checks)
     IN  IF tl_args.maker = "tile_pos_to_invisible_tile"
         THEN /\ tl_pc' = "TileMaker"
              /\ grid_tile_map' = grid_tile_map
         ELSE IF built.panic
         THEN /\ tl_pc' = "TileMakerPanicked"
              /\ grid_tile_map' = grid_tile_map
         ELSE /\ tl_pc' = "TileMaker"
              /\ grid_tile_map' = built.map
  /\ UNCHANGED <<tl_args, ig_i, nonzero_map, tl_fn, tl_cell, tl_tile, tl_bundle>>
  /\ UNCHANGED notTiles

\* A call of the tile maker itself.
TileMakerCall(tile_pos) ==
  /\ tl_pc \in {"TileMaker", "TileMakerCalled"}
  /\ ig_i = 0
  /\ tl_pc' = "TileMakerCalled"
  /\ tl_fn' = "tile_maker"
  /\ tl_cell' = tile_pos
  /\ tl_tile' = tile_maker(tl_args, grid_tile_map, tile_pos)
  /\ UNCHANGED <<tl_args, grid_tile_map, ig_i, nonzero_map, tl_bundle>>
  /\ UNCHANGED notTiles

\* tile_makers.rs 118-127: tile_pos_to_tile_bundle_maker takes the tile maker.
WrapTileMaker ==
  /\ tl_pc = "TileMaker"
  /\ ~IsSome(tl_args.int_grid)
  /\ tl_pc' = "BundleMaker"
  /\ UNCHANGED <<tl_args, grid_tile_map, ig_i, nonzero_map, tl_fn, tl_cell,
                 tl_tile, tl_bundle>>
  /\ UNCHANGED notTiles

\* tile_makers.rs 92-103: one (i, v) of int_grid_csv.iter().enumerate() goes
\* into the map; expect panics when int_grid_index_to_tile_pos gives None.
NonzeroMapStep ==
  /\ tl_pc = "TileMaker"
  /\ IsSome(tl_args.int_grid)
  /\ IndexBelowLen(ig_i, Unwrap(tl_args.int_grid).int_grid_csv.len)
  /\ LET ig == Unwrap(tl_args.int_grid)
         pos == int_grid_index_to_tile_pos(Usize(0, ig_i),
                  ig.layer_width_in_tiles, ig.layer_height_in_tiles,
                  overflow_checks)
     IN  IF pos.kind = "some"
         THEN /\ nonzero_map' = HashMapInsert(nonzero_map, TilePos(pos.x, pos.y),
                                              CsvAt(ig.int_grid_csv, ig_i) # 0)
              /\ ig_i' = ig_i + 1
              /\ tl_pc' = tl_pc
         ELSE /\ tl_pc' = "BundleMakerPanicked"
              /\ UNCHANGED <<nonzero_map, ig_i>>
  /\ UNCHANGED <<tl_args, grid_tile_map, tl_fn, tl_cell, tl_tile, tl_bundle>>
  /\ UNCHANGED notTiles

\* tile_makers.rs 104-112: the enumeration is over, the closure is returned.
WrapIfIntGridNonzero ==
  /\ tl_pc = "TileMaker"
  /\ IsSome(tl_args.int_grid)
  /\ ~IndexBelowLen(ig_i, Unwrap(tl_args.int_grid).int_grid_csv.len)
  /\ tl_pc' = "BundleMaker"
  /\ UNCHANGED <<tl_args, grid_tile_map, ig_i, nonzero_map, tl_fn, tl_cell,
                 tl_tile, tl_bundle>>
  /\ UNCHANGED notTiles

\* tile_makers.rs 104-111: the closure over nonzero_map; it calls the tile
\* maker only where the map holds true.
IntGridNonzeroClosure(args, map, nonzero, tile_pos) ==
  IF tile_pos \in DOMAIN nonzero /\ nonzero[tile_pos]
  THEN tile_maker(args, map, tile_pos)
  ELSE None

\* A call of the bundle maker (tile_makers.rs 104-112 and 121-126).
BundleMakerCall(tile_pos) ==
  /\ tl_pc = "BundleMaker"
  /\ sa_pc = "Idle"
  /\ tl_fn' = "bundle_maker"
  /\ tl_cell' = tile_pos
  /\ tl_tile' = IF IsSome(tl_args.int_grid)
                THEN IntGridNonzeroClosure(tl_args, grid_tile_map, nonzero_map,
                                           tile_pos)
                ELSE tile_maker(tl_args, grid_tile_map, tile_pos)
  /\ tl_bundle' = MapToBundle(tl_tile')
  /\ UNCHANGED <<tl_args, tl_pc, grid_tile_map, ig_i, nonzero_map>>
  /\ UNCHANGED notTiles

\* The arguments of tile_pos_to_tile_maker, as the claims name them.
LayerH == tl_args.layer_height_in_tiles

LayerG == tl_args.layer_grid_size

TilesetS == tl_args.tileset_definition.tile_grid_size

TilesetW == tl_args.tileset_definition.c_wid

InstancePositions == 1..Len(tl_args.grid_tiles)

\* The cell (px.x div G, H - 1 - (px.y div G)) of an instance.
CellOf(t) == TilePos(t.px[1] \div LayerG, LayerH - 1 - (t.px[2] \div LayerG))

\* Every instance maps to a cell inside the layer, no two to the same cell.
DistinctCellsInLayer ==
  /\ \A i \in InstancePositions :
       /\ tl_args.grid_tiles[i].px[1] >= 0
       /\ tl_args.grid_tiles[i].px[2] >= 0
       /\ CellOf(tl_args.grid_tiles[i])[2] >= 0
  /\ \A i \in InstancePositions, j \in InstancePositions :
       CellOf(tl_args.grid_tiles[i]) = CellOf(tl_args.grid_tiles[j]) => i = j

InstancesAt(tile_pos) ==
  {i \in InstancePositions : CellOf(tl_args.grid_tiles[i]) = tile_pos}

\* (src.y div S) * W + (src.x div S)
RowMajorIndex(t) == (t.src[2] \div TilesetS) * TilesetW + (t.src[1] \div TilesetS)

FlipsOfCode(f) ==
  CASE f = 0 -> <<FALSE, FALSE>>
    [] f = 1 -> <<TRUE, FALSE>>
    [] f = 2 -> <<FALSE, TRUE>>
    [] f = 3 -> <<TRUE, TRUE>>

\* The tile of the last call is the one the claim gives for instance t.
TileIsOf(t) ==
  /\ IsSome(tl_tile)
  /\ Unwrap(tl_tile).texture_index = RowMajorIndex(t)
  /\ t.f \in 0..3 =>
       <<Unwrap(tl_tile).flip_x, Unwrap(tl_tile).flip_y>> = FlipsOfCode(t.f)

\* C9: for instances that map to distinct cells inside the layer, the tile
\* maker built by tile_pos_to_tile_maker is built, returns at the cell
\* (px.x div G, H - 1 - (px.y div G)) of each instance a tile with
\* texture_index = (src.y div S) * W + (src.x div S) and the flips of its flip
\* code (0: none, 1: x, 2: y, 3: both), and returns no tile at any other cell.
C9_TileMakerTiles ==
  (tl_args.maker = "tile_pos_to_tile_maker" /\ DistinctCellsInLayer) =>
    /\ tl_pc # "TileMakerPanicked"
    /\ tl_pc = "TileMakerCalled" =>
         IF InstancesAt(tl_cell) = {}
         THEN tl_tile = None
         ELSE \A i \in InstancesAt(tl_cell) : TileIsOf(tl_args.grid_tiles[i])

\* The same, for instances whose row-major index fits the 16 bits of
\* Tile::texture_index.
C9_TileMakerTiles_In16Bits ==
  (/\ tl_args.maker = "tile_pos_to_tile_maker"
   /\ DistinctCellsInLayer
   /\ \A i \in InstancePositions : RowMajorIndex(tl_args.grid_tiles[i]) < B16) =>
    /\ tl_pc # "TileMakerPanicked"
    /\ tl_pc = "TileMakerCalled" =>
         IF InstancesAt(tl_cell) = {}
         THEN tl_tile = None
         ELSE \A i \in InstancesAt(tl_cell) : TileIsOf(tl_args.grid_tiles[i])

\* The unit tests of tile_makers.rs (texture indices 2, 1, 1, 4 and the flips).
TileMakerUnitTests ==
  (tl_args \in TileMakerTestArgs /\ tl_pc = "TileMakerCalled") =>
    IF tl_args.tileset_definition.c_wid = 3
    THEN /\ tl_cell = TilePos(0, 0) => Unwrap(tl_tile).texture_index = 2
         /\ tl_cell = TilePos(1, 0) => Unwrap(tl_tile).texture_index = 1
         /\ tl_cell = TilePos(0, 1) => Unwrap(tl_tile).texture_index = 1
         /\ tl_cell = TilePos(1, 1) => Unwrap(tl_tile).texture_index = 4
    ELSE /\ tl_cell = TilePos(0, 0) =>
              ~Unwrap(tl_tile).flip_x /\ Unwrap(tl_tile).flip_y
         /\ tl_cell = TilePos(0, 1) =>
              ~Unwrap(tl_tile).flip_x /\ ~Unwrap(tl_tile).flip_y
         /\ tl_cell = TilePos(1, 1) =>
              Unwrap(tl_tile).flip_x /\ ~Unwrap(tl_tile).flip_y
         /\ tl_cell = TilePos(2, 1) =>
              Unwrap(tl_tile).flip_x /\ Unwrap(tl_tile).flip_y

\* The int grid of the arguments, as the claims name it.
TheIntGrid == Unwrap(tl_args.int_grid)

GridW == TheIntGrid.layer_width_in_tiles

GridH == TheIntGrid.layer_height_in_tiles

\* w * h as a usize, for w and h up to 65536.
AreaAsUsize(w, h) == IF w = B16 /\ h = B16 THEN Usize(1, 0) ELSE Usize(0, w * h)

\* csv has length w * h, with w, h > 0.
CsvFillsLayer ==
  /\ IsSome(tl_args.int_grid)
  /\ GridW > 0
  /\ GridH > 0
  /\ TheIntGrid.int_grid_csv.len = AreaAsUsize(GridW, GridH)

\* x < w, y < h, csv[(h - 1 - y) * w + x] is non-zero and the wrapped tile maker
\* returns a tile at (x, y).
BundleDue(tile_pos) ==
  /\ tile_pos[1] < GridW
  /\ tile_pos[2] < GridH
  /\ CsvAt(TheIntGrid.int_grid_csv, (GridH - 1 - tile_pos[2]) * GridW + tile_pos[1]) # 0
  /\ IsSome(tile_maker(tl_args, grid_tile_map, tile_pos))

\* C10: for an int grid csv of length w * h (w, h > 0), the bundle maker of
\* tile_pos_to_tile_bundle_if_int_grid_nonzero_maker is built and returns a
\* bundle at (x, y) if and only if x < w, y < h, csv[(h - 1 - y) * w + x] is
\* non-zero and the wrapped tile maker returns a tile at (x, y); the bundle
\* carries exactly that tile.
C10_BundleIffNonzero ==
  CsvFillsLayer =>
    /\ tl_pc # "BundleMakerPanicked"
    /\ tl_fn = "bundle_maker" =>
         IF BundleDue(tl_cell)
         THEN tl_bundle = Some(TileBundle(Unwrap(tile_maker(tl_args, grid_tile_map, tl_cell))))
         ELSE tl_bundle = None

\* The same, for layers whose area w * h fits 32 bits.
C10_BundleIffNonzero_In32Bits ==
  (CsvFillsLayer /\ ~MulOverflowsU32(GridW, GridH)) =>
    /\ tl_pc # "BundleMakerPanicked"
    /\ tl_fn = "bundle_maker" =>
         IF BundleDue(tl_cell)
         THEN tl_bundle = Some(TileBundle(Unwrap(tile_maker(tl_args, grid_tile_map, tl_cell))))
         ELSE tl_bundle = None

\* The array of the int grid is shorter, or longer, than w * h.
CsvShorter ==
  /\ IsSome(tl_args.int_grid)
  /\ ~MulOverflowsU32(GridW, GridH)
  /\ TheIntGrid.int_grid_csv.len.hi = 0
  /\ TheIntGrid.int_grid_csv.len.lo < GridW * GridH

CsvLonger ==
  /\ IsSome(tl_args.int_grid)
  /\ ~MulOverflowsU32(GridW, GridH)
  /\ \/ TheIntGrid.int_grid_csv.len.hi > 0
     \/ TheIntGrid.int_grid_csv.len.lo > GridW * GridH

\* The enumeration of the array ended and the closure over the mask exists.
MaskProduced == IsSome(tl_args.int_grid) /\ tl_pc = "BundleMaker"

\* C11: building the int-grid cell mask fails whenever the array is longer or
\* shorter than width * height: no mask is produced from such an array.
C11_LengthMismatchFailsFast ==
  (CsvShorter \/ CsvLonger) => ~MaskProduced

\* The half of it about the longer arrays: the enumeration panics at the
\* index width * height and never passes it.
C11_LongerFailsFast ==
  CsvLonger => (~MaskProduced /\ ig_i <= GridW * GridH)

\* The target cell tile_pos_to_tile_maker maps an instance to.
TargetCell(t) ==
  LET key == GridTileKey(t, LayerH, LayerG, overflow_checks)
  IN  TilePos(key.x, key.y)

\* The positions in the input list of the instances mapped to tile_pos.
InstancesMappedTo(tile_pos) ==
  {i \in InstancePositions : TargetCell(tl_args.grid_tiles[i]) = tile_pos}

LastOf(S) == CHOOSE i \in S : \A j \in S : j <= i

\* The descriptor of an instance: the tile a maker built from that instance
\* alone returns at the instance's cell.
DescriptorOf(t) ==
  TileMakerClosure(GridTileMap(<<t>>, 1, LayerH, LayerG, overflow_checks).map,
                   tl_args.tileset_definition, TargetCell(t))

\* C17: when several instances of the input list map to the same target
\* cell, the tile maker built by tile_pos_to_tile_maker returns at that cell
\* the descriptor of the one that comes last in the list, for every list and
\* every order of its instances.
C17_LastInstanceWins ==
  (/\ tl_args.maker = "tile_pos_to_tile_maker"
   /\ tl_pc = "TileMakerCalled"
   /\ InstancesMappedTo(tl_cell) # {}) =>
    tl_tile = DescriptorOf(tl_args.grid_tiles[LastOf(InstancesMappedTo(tl_cell))])

\* C17 witness: two instances with different descriptors map to the cell
\* called, and the tile returned is the later one's.
C17_Witness ==
  /\ tl_args.maker = "tile_pos_to_tile_maker"
  /\ tl_pc = "TileMakerCalled"
  /\ Cardinality(InstancesMappedTo(tl_cell)) >= 2
  /\ \E i \in InstancesMappedTo(tl_cell) :
       DescriptorOf(tl_args.grid_tiles[i]) # tl_tile
  /\ tl_tile = DescriptorOf(tl_args.grid_tiles[LastOf(InstancesMappedTo(tl_cell))])

(***************************************************************************)
(* ---------------------------------------------------------------------- *)
(* set_all_tiles_with_func (utils.rs).                                     *)
(* ---------------------------------------------------------------------- *)
(* The bundle maker is moved into set_all_tiles_with_func as it was built; *)
(* the two loops call it for the cells of the layer builder's map, x in    *)
(* the outer loop and y in the inner one, and set the tiles it returns.    *)
(***************************************************************************)

\* The map and chunk sizes of the layer builder's settings.
MapSizes == {<<1, 1>>, <<2, 1>>}

ChunkSizes == {<<1, 1>>, <<1, 2>>}

\* utils.rs 173-175: (map_size * chunk_size).as_uvec2(); the f32 products of
\* these sizes are exact.
map_size_in_tiles(map_size, chunk_size) ==
  <<map_size[1] * chunk_size[1], map_size[2] * chunk_size[2]>>

\* The bundle maker handed over as func, called at tile_pos (tile_makers.rs
\* 104-112 and 121-126).
bundle_maker(args, map, nonzero, tile_pos) ==
  MapToBundle(IF IsSome(args.int_grid)
              THEN IntGridNonzeroClosure(args, map, nonzero, tile_pos)
              ELSE tile_maker(args, map, tile_pos))

TileMakerQueries_EveryCell(args, nonzero, tile_pos) == <<tile_pos>>

\* The calls of the wrapped tile maker one call of the bundle maker makes:
\* tile_pos_to_tile_bundle_maker calls it every time (tile_makers.rs 122),
\* the int-grid maker only in the arm `Some(nonzero) if *nonzero`
\* (tile_makers.rs 105-106).
TileMakerQueries(args, nonzero, tile_pos) ==
  IF IsSome(args.int_grid)
  THEN IF tile_pos \in DOMAIN nonzero /\ nonzero[tile_pos]
       THEN <<tile_pos>>
       ELSE <<>>
  ELSE <<tile_pos>>

\* LayerBuilder::set_tile: Ok when tile_pos lies in the map, the tile stored
\* under it; unwrap() panics otherwise.
SetTileOk(size, tile_pos) == LessU32(tile_pos[1], size[1]) /\ LessU32(tile_pos[2], size[2])

\* utils.rs 167-175: set_all_tiles_with_func is entered with the maker.
StartSetAllTiles(map_size, chunk_size) ==
  /\ tl_pc = "BundleMaker"
  /\ tl_fn = "none"
  /\ sa_pc = "Idle"
  /\ sa_size' = map_size_in_tiles(map_size, chunk_size)
  /\ sa_pc' = IF sa_size'[1] = 0 \/ sa_size'[2] = 0 THEN "Done" ELSE "Setting"
  /\ UNCHANGED <<sa_x, sa_y, sa_func_calls, sa_maker_calls, sa_tiles>>
  /\ UNCHANGED notSet

\* utils.rs 176-183: one pass of the inner loop body, and the step to the
\* next y, or to the next x when the ys are through.
SetTileStep ==
  /\ sa_pc = "Setting"
  /\ LET tile_pos == TilePos(sa_x, sa_y)
         t == bundle_maker(tl_args, grid_tile_map, nonzero_map, tile_pos)
     IN  /\ sa_func_calls' = Append(sa_func_calls, tile_pos)
         /\ sa_maker_calls' =
              sa_maker_calls \o TileMakerQueries(tl_args, nonzero_map, tile_pos)
         /\ IF IsSome(t) /\ ~SetTileOk(sa_size, tile_pos)
            THEN /\ sa_pc' = "Panicked"
                 /\ UNCHANGED <<sa_x, sa_y, sa_tiles>>
            ELSE /\ sa_tiles' = IF IsSome(t)
                                THEN HashMapInsert(sa_tiles, tile_pos, Unwrap(t))
                                ELSE sa_tiles
                 /\ IF sa_y + 1 < sa_size[2]
                    THEN /\ sa_y' = sa_y + 1
                         /\ UNCHANGED <<sa_x, sa_pc>>
                    ELSE /\ sa_y' = 0
                         /\ sa_x' = sa_x + 1
                         /\ sa_pc' = IF sa_x + 1 < sa_size[1]
                                     THEN "Setting" ELSE "Done"
  /\ UNCHANGED sa_size
  /\ UNCHANGED notSet

\* The cells of the layer builder's map: x below its width, y below its
\* height.
MapCells ==
  {TilePos(x, y) : x \in 0..(sa_size[1] - 1), y \in 0..(sa_size[2] - 1)}

\* How many of the calls were made with the cell.
CallCount(calls, cell) == Cardinality({i \in 1..Len(calls) : calls[i] = cell})

\* The calls are one for each cell of the map and no others.
OncePerCell(calls) ==
  /\ \A i \in 1..Len(calls) : calls[i] \in MapCells
  /\ \A cell \in MapCells : CallCount(calls, cell) = 1

\* The cells at which the maker handed over returns a tile.
CellsWithTile ==
  {cell \in MapCells :
     IsSome(bundle_maker(tl_args, grid_tile_map, nonzero_map, cell))}

\* The tiles set are the ones the maker returns, at the cells where it
\* returns one.
TilesSetWhereReturned ==
  /\ DOMAIN sa_tiles = CellsWithTile
  /\ \A cell \in CellsWithTile :
       Some(sa_tiles[cell]) = bundle_maker(tl_args, grid_tile_map, nonzero_map, cell)

\* The cells the int-grid gating stage lets through: the mask holds true.
MaskNonzero(cell) == cell \in DOMAIN nonzero_map /\ nonzero_map[cell]

Gated == IsSome(tl_args.int_grid)

\* C18 (as claimed): when set_all_tiles_with_func has materialized a layer,
\* the outer maker was called exactly once for each cell (x, y) with x below
\* the map width and y below the map height, a tile is set at exactly the
\* cells where it returned one, and the wrapped inner tile maker was
\* likewise queried exactly once for each cell.
C18_EveryStageOncePerCell ==
  /\ sa_pc # "Panicked"
  /\ sa_pc = "Done" =>
       /\ OncePerCell(sa_func_calls)
       /\ TilesSetWhereReturned
       /\ OncePerCell(sa_maker_calls)

\* C18 (amended): the outer maker was called exactly once for each cell of
\* the map and a tile is set at exactly the cells where it returned one; the
\* wrapped tile maker was queried exactly once for each cell under the
\* bundle-wrapping stage, and under the int-grid gating stage exactly once at
\* each cell whose mask entry is nonzero and at no other cell.
C18_GatedStageQueriesNonzeroCells ==
  /\ sa_pc # "Panicked"
  /\ sa_pc = "Done" =>
       /\ OncePerCell(sa_func_calls)
       /\ TilesSetWhereReturned
       /\ ~Gated => OncePerCell(sa_maker_calls)
       /\ Gated =>
            /\ \A i \in 1..Len(sa_maker_calls) : sa_maker_calls[i] \in MapCells
            /\ \A cell \in MapCells :
                 CallCount(sa_maker_calls, cell) = IF MaskNonzero(cell) THEN 1 ELSE 0

\* C18 witness: a gated layer of several cells is materialized; the tile
\* maker was queried at a cell of nonzero mask and not at another cell, and a
\* tile is set.
C18_Witness ==
  /\ sa_pc = "Done"
  /\ Gated
  /\ Cardinality(MapCells) >= 4
  /\ \E cell \in MapCells : MaskNonzero(cell) /\ CallCount(sa_maker_calls, cell) = 1
  /\ \E cell \in MapCells : ~MaskNonzero(cell) /\ CallCount(sa_maker_calls, cell) = 0
  /\ sa_tiles # <<>>
  /\ Len(sa_func_calls) = Cardinality(MapCells)

(***************************************************************************)
(* ---------------------------------------------------------------------- *)
(* Translations and transforms (utils.rs).                                 *)
(* ---------------------------------------------------------------------- *)
(* The f32 values of these functions are sums and products of integers,    *)
(* halves and pivots; with the pivots taken in quarters they are whole     *)
(* numbers of quarters, which an f32 holds exactly for the values below.   *)
(* An f32 is held as its number of quarters, and an f32 quotient as the    *)
(* pair it is the quotient of.                                             *)
(***************************************************************************)

\* i32 as f32 (as_vec2), in quarters.
AsF32(n) == 4 * n

\* The f32 0.5, in quarters.
HalfF32 == AsF32(1) \div 2

\* The product of two f32 values held in quarters.
MulF32(a, b) == (a * b) \div 4

\* The f32 quotient num / den of two i32 values converted to f32.
QuotientF32(num, den) == [num |-> num, den |-> den]

\* Two f32 quotients are the same number.
SameQuotient(q, r) ==
  /\ (q.den = 0) = (r.den = 0)
  /\ q.num * r.den = r.num * q.den

\* utils.rs 107-109
ldtk_pixel_coords_to_translation(ldtk_coords, ldtk_pixel_height, checks) ==
  LET p == ldtk_coord_conversion(ldtk_coords, ldtk_pixel_height, checks)
  IN  IF p.panic THEN Panicked ELSE Vec(AsF32(p.x), AsF32(p.y))

\* utils.rs 125-131 (the i32 products stay in range for the values below)
ldtk_grid_coords_to_translation(ldtk_coords, ldtk_grid_height, grid_size, checks) ==
  ldtk_pixel_coords_to_translation(
    Vec(ldtk_coords.x * grid_size.x, ldtk_coords.y * grid_size.y),
    ldtk_grid_height * grid_size.y, checks)

\* utils.rs 133-140
ldtk_grid_coords_to_translation_centered(ldtk_coords, ldtk_grid_height, grid_size, checks) ==
  LET corner == ldtk_pixel_coords_to_translation(
                  Vec(ldtk_coords.x * grid_size.x, ldtk_coords.y * grid_size.y),
                  ldtk_grid_height * grid_size.y, checks)
  IN  IF corner.panic THEN Panicked
      ELSE Vec(corner.x + AsF32(grid_size.x), corner.y + AsF32(0 - grid_size.y))

\* utils.rs 142-146: tile_size * tile_coords + tile_size / Vec2::splat(0.5)
tile_pos_to_translation_centered(tile_pos, tile_size) ==
  Vec(MulF32(AsF32(tile_size.x), AsF32(tile_pos.x))
        + (AsF32(tile_size.x) * 4) \div HalfF32,
      MulF32(AsF32(tile_size.y), AsF32(tile_pos.y))
        + (AsF32(tile_size.y) * 4) \div HalfF32)

\* utils.rs 148-161; pivot is in quarters.
ldtk_pixel_coords_to_translation_pivoted(ldtk_coords, ldtk_pixel_height, grid_size, pivot, checks) ==
  LET pivot_point == ldtk_pixel_coords_to_translation(ldtk_coords,
                                                      ldtk_pixel_height, checks)
      adjusted_pivot == Vec(HalfF32 - pivot.x, pivot.y - HalfF32)
      offset == Vec(MulF32(AsF32(grid_size.x), adjusted_pivot.x),
                    MulF32(AsF32(grid_size.y), adjusted_pivot.y))
  IN  IF pivot_point.panic THEN Panicked
      ELSE Vec(pivot_point.x + offset.x, pivot_point.y + offset.y)

\* EntityDefinition and EntityInstance: the fields the conversion reads.
EntityDefinition(uid, width, height) ==
  [uid |-> uid, width |-> width, height |-> height]

EntityInstanceTile(src_rect) == [src_rect |-> src_rect]

EntityInstance(px, def_uid, width, height, pivot, tile) ==
  [px |-> px, def_uid |-> def_uid, width |-> width, height |-> height,
   pivot |-> pivot, tile |-> tile]

\* utils.rs 48-52: the map from uid to definition.
create_entity_definition_map(entity_definitions) ==
  [uid \in {entity_definitions[i].uid : i \in 1..Len(entity_definitions)} |->
     entity_definitions[
       CHOOSE i \in 1..Len(entity_definitions) :
         /\ entity_definitions[i].uid = uid
         /\ \A j \in (i + 1)..Len(entity_definitions) :
              entity_definitions[j].uid # uid]]

\* Transform: translation (x, y, z) and scale (x, y, 1).
Transform(translation, z_value, scale_x, scale_y) ==
  [panic |-> FALSE, x |-> translation.x, y |-> translation.y, z |-> z_value,
   scale_x |-> scale_x, scale_y |-> scale_y]

\* The panic of unwrap() on an absent definition (or of an overflow check).
TransformPanic ==
  [panic |-> TRUE, x |-> 0, y |-> 0, z |-> 0,
   scale_x |-> QuotientF32(1, 1), scale_y |-> QuotientF32(1, 1)]

NoTransform == Transform(Vec(0, 0), 0, QuotientF32(1, 1), QuotientF32(1, 1))

def_size_DefinitionOnly(entity_instance, entity_definition) ==
  Vec(entity_definition.width, entity_definition.height)

\* utils.rs 71-74
def_size(entity_instance, entity_definition) ==
  IF IsSome(entity_instance.tile)
  THEN Vec(Unwrap(entity_instance.tile).src_rect[3],
           Unwrap(entity_instance.tile).src_rect[4])
  ELSE Vec(entity_definition.width, entity_definition.height)

\* utils.rs 60-84
calculate_transform_from_entity_instance(entity_instance, entity_definition_map, level_height, z_value, checks) ==
  IF entity_instance.def_uid \notin DOMAIN entity_definition_map
  THEN TransformPanic
  ELSE LET entity_definition == entity_definition_map[entity_instance.def_uid]
           location == Vec(entity_instance.px[1], entity_instance.px[2])
           pivot == Vec(entity_instance.pivot[1], entity_instance.pivot[2])
           natural == def_size(entity_instance, entity_definition)
           size == Vec(entity_instance.width, entity_instance.height)
           translation == ldtk_pixel_coords_to_translation_pivoted(
                            location, level_height, size, pivot, checks)
       IN  IF translation.panic THEN TransformPanic
           ELSE Transform(translation, z_value,
                          QuotientF32(size.x, natural.x),
                          QuotientF32(size.y, natural.y))

\* The definitions of the unit tests (utils.rs 259-283).
TestEntityDefinitions ==
  << EntityDefinition(0, 32, 32), EntityDefinition(1, 64, 16),
     EntityDefinition(2, 10, 25) >>

\* A call of calculate_transform_from_entity_instance.
EntityCall(entity_instance, entity_definitions, level_height, z_value) ==
  [entity_instance |-> entity_instance,
   entity_definitions |-> entity_definitions,
   level_height |-> level_height, z_value |-> z_value]

NoEntityCall ==
  EntityCall(EntityInstance(<<0, 0>>, 0, 0, 0, <<0, 0>>, None), <<>>, 0, 0)

\* The calls of the unit tests (utils.rs 285-309, 327-338).
EntityTestCalls ==
  << EntityCall(EntityInstance(<<256, 256>>, 0, 32, 32,
                               <<AsF32(0), AsF32(0)>>, None),
                TestEntityDefinitions, 320, AsF32(0)),
     EntityCall(EntityInstance(<<40, 50>>, 2, 30, 50,
                               <<AsF32(1), AsF32(1)>>, None),
                TestEntityDefinitions, 100, AsF32(2)),
     EntityCall(EntityInstance(<<64, 64>>, 0, 64, 64,
                               <<AsF32(1), AsF32(1)>>,
                               Some(EntityInstanceTile(<<0, 0, 16, 32>>))),
                TestEntityDefinitions, 100, AsF32(2)) >>

\* The entity instances drawn: pivots 0, 0.25, 0.5 and 1 (in quarters); uid 7
\* has no definition.
EntityInstances ==
  LET Pivots == {0, 1, HalfF32, AsF32(1)}
  IN  { EntityInstance(<<px, py>>, def_uid, size[1], size[2], <<pvx, pvy>>, tile) :
          px \in {0, 40}, py \in {0, 50}, def_uid \in {0, 2, 7},
          size \in {<<32, 32>>, <<30, 50>>}, pvx \in Pivots, pvy \in Pivots,
          tile \in {None, Some(EntityInstanceTile(<<0, 0, 16, 32>>))} }

EntityCalls ==
  { EntityTestCalls[i] : i \in 1..Len(EntityTestCalls) }
    \cup { EntityCall(e, TestEntityDefinitions, 100, AsF32(z)) :
             e \in EntityInstances, z \in {0, 2} }

\* A call of the grid translations: coordinate, grid height, cell size.
GridCall(coords, height, grid_size) ==
  [coords |-> coords, height |-> height, grid_size |-> grid_size]

NoGridCall == GridCall(Vec(0, 0), 0, Vec(0, 0))

GridCalls ==
  { GridCall(Vec(x, y), h, Vec(g[1], g[2])) :
      x \in 0..2, y \in 0..2, h \in 1..3,
      g \in {<<16, 16>>, <<8, 4>>, <<1, 1>>} }

\* One call of calculate_transform_from_entity_instance.
CalculateTransform(call) ==
  /\ tr_fn = "none"
  /\ tr_fn' = "entity"
  /\ tr_entity' = call
  /\ tr_transform' = calculate_transform_from_entity_instance(
                       call.entity_instance,
                       create_entity_definition_map(call.entity_definitions),
                       call.level_height, call.z_value, overflow_checks)
  /\ UNCHANGED <<tr_grid, tr_corner, tr_centered>>
  /\ UNCHANGED notTransform

\* One call of each of the two grid translations on the same arguments.
GridToTranslation(call) ==
  /\ tr_fn = "none"
  /\ tr_fn' = "grid"
  /\ tr_grid' = call
  /\ tr_corner' = ldtk_grid_coords_to_translation(
                    call.coords, call.height, call.grid_size, overflow_checks)
  /\ tr_centered' = ldtk_grid_coords_to_translation_centered(
                      call.coords, call.height, call.grid_size, overflow_checks)
  /\ UNCHANGED <<tr_entity, tr_transform>>
  /\ UNCHANGED notTransform

\* One call of tile_pos_to_translation_centered; the corner of the tile is
\* tile_size * tile_pos.
TilePosToTranslation(call) ==
  /\ tr_fn = "none"
  /\ tr_fn' = "tile_pos"
  /\ tr_grid' = call
  /\ tr_corner' = Vec(AsF32(call.grid_size.x * call.coords.x),
                      AsF32(call.grid_size.y * call.coords.y))
  /\ tr_centered' = tile_pos_to_translation_centered(call.coords, call.grid_size)
  /\ UNCHANGED <<tr_entity, tr_transform>>
  /\ UNCHANGED notTransform

\* The instance and the definitions of the call made.
TheInstance == tr_entity.entity_instance

DefinedUids ==
  {tr_entity.entity_definitions[i].uid : i \in 1..Len(tr_entity.entity_definitions)}

TheDefinition ==
  tr_entity.entity_definitions[
    CHOOSE i \in 1..Len(tr_entity.entity_definitions) :
      tr_entity.entity_definitions[i].uid = TheInstance.def_uid]

\* (nw, nh): the tile-crop rectangle's size when the instance has one, the
\* definition's size otherwise.
NaturalSize ==
  IF IsSome(TheInstance.tile)
  THEN <<Unwrap(TheInstance.tile).src_rect[3], Unwrap(TheInstance.tile).src_rect[4]>>
  ELSE <<TheDefinition.width, TheDefinition.height>>

\* C12: calculate_transform_from_entity_instance returns the translation
\* (px + w*(0.5 - pvx), (L - py - 1) + h*(pvy - 0.5), z) and the scale
\* (w / nw, h / nh), with (nw, nh) the tile-crop size when the instance has a
\* tile and the definition's size otherwise; with the definition id absent
\* from the map it panics and there is no transform.  (Lengths in quarters.)
C12_EntityTransform ==
  tr_fn = "entity" =>
    IF TheInstance.def_uid \notin DefinedUids
    THEN tr_transform.panic
    ELSE /\ ~tr_transform.panic
         /\ tr_transform.x = 4 * TheInstance.px[1]
                               + TheInstance.width * (2 - TheInstance.pivot[1])
         /\ tr_transform.y = 4 * (tr_entity.level_height - TheInstance.px[2] - 1)
                               + TheInstance.height * (TheInstance.pivot[2] - 2)
         /\ tr_transform.z = tr_entity.z_value
         /\ tr_transform.scale_x.den = NaturalSize[1]
         /\ tr_transform.scale_y.den = NaturalSize[2]
         /\ tr_transform.scale_x.num = TheInstance.width
         /\ tr_transform.scale_y.num = TheInstance.height

\* A transform computed for an instance with a tile-crop rectangle whose size
\* differs from the definition's, off the pivot's centre.
C12_Witness ==
  /\ tr_fn = "entity"
  /\ TheInstance.def_uid \in DefinedUids
  /\ IsSome(TheInstance.tile)
  /\ NaturalSize # <<TheDefinition.width, TheDefinition.height>>
  /\ TheInstance.pivot[1] # HalfF32
  /\ TheInstance.px[2] > 0
  /\ ~tr_transform.panic

\* A call for an instance whose definition id is not in the map panicked.
C12_AbsentDefinitionPanics ==
  tr_fn = "entity" /\ TheInstance.def_uid \notin DefinedUids /\ tr_transform.panic

\* The three cases of the unit tests (utils.rs 285-351) give the transforms
\* the tests assert.
EntityUnitTests ==
  tr_fn = "entity" =>
    /\ tr_entity = EntityTestCalls[1] =>
         /\ <<tr_transform.x, tr_transform.y, tr_transform.z>>
              = <<AsF32(272), AsF32(47), AsF32(0)>>
         /\ SameQuotient(tr_transform.scale_x, QuotientF32(1, 1))
         /\ SameQuotient(tr_transform.scale_y, QuotientF32(1, 1))
    /\ tr_entity = EntityTestCalls[2] =>
         /\ <<tr_transform.x, tr_transform.y, tr_transform.z>>
              = <<AsF32(25), AsF32(74), AsF32(2)>>
         /\ SameQuotient(tr_transform.scale_x, QuotientF32(3, 1))
         /\ SameQuotient(tr_transform.scale_y, QuotientF32(2, 1))
    /\ tr_entity = EntityTestCalls[3] =>
         /\ <<tr_transform.x, tr_transform.y, tr_transform.z>>
              = <<AsF32(32), AsF32(67), AsF32(2)>>
         /\ SameQuotient(tr_transform.scale_x, QuotientF32(4, 1))
         /\ SameQuotient(tr_transform.scale_y, QuotientF32(2, 1))

\* The magnitude of an f32 (in quarters).
AbsF32(a) == IF a < 0 THEN 0 - a ELSE a

\* C15: for every grid coordinate c, grid height h and cell size g,
\* ldtk_grid_coords_to_translation_centered(c, h, g) is
\* ldtk_grid_coords_to_translation(c, h, g) displaced by one half-cell in
\* each axis: by g.x / 2 in x and by g.y / 2 in y.
C15_CenteredIsHalfCellAway ==
  (tr_fn = "grid" /\ ~tr_corner.panic /\ ~tr_centered.panic) =>
    /\ 2 * AbsF32(tr_centered.x - tr_corner.x) = AsF32(tr_grid.grid_size.x)
    /\ 2 * AbsF32(tr_centered.y - tr_corner.y) = AsF32(tr_grid.grid_size.y)

\* What the code does: the centered grid translation is a whole cell away
\* from the corner in each axis, the centered tile translation two cells.
C15_CenteredIsWholeCellAway ==
  /\ (tr_fn = "grid" /\ ~tr_corner.panic /\ ~tr_centered.panic) =>
       /\ tr_centered.x - tr_corner.x = AsF32(tr_grid.grid_size.x)
       /\ tr_corner.y - tr_centered.y = AsF32(tr_grid.grid_size.y)
  /\ tr_fn = "tile_pos" =>
       /\ tr_centered.x - tr_corner.x = 2 * AsF32(tr_grid.grid_size.x)
       /\ tr_centered.y - tr_corner.y = 2 * AsF32(tr_grid.grid_size.y)

(***************************************************************************)
(* ---------------------------------------------------------------------- *)
(* The specifications.                                                     *)
(* ---------------------------------------------------------------------- *)
(***************************************************************************)
vars ==
  <<lookupVars, gridVars, projectVars, externalVars, tileVars, transformVars, setVars>>

\* The asset server hands LdtkProjectLoader::load the bytes of a .ldtk file.
Init ==
  /\ \/ manifest \in ManifestsOfLevels
     \/ manifest \in ManifestsOfTilesets
     \/ manifest = NotJson
  /\ external_levels_feature \in BOOLEAN
  /\ pl_pc = "Unresolved"
  /\ pl_error = "none"
  /\ pl_level_index = 0
  /\ level_map = <<>>
  /\ background_images = <<>>
  /\ external_level_paths = <<>>
  /\ tileset_rel_paths = <<>>
  /\ tileset_map = <<>>
  /\ pl_warnings = <<>>
  /\ labeled_assets = {}
  /\ project_asset = None
  /\ pl_publish_count = 0
  /\ registry = <<>>
  /\ lk_default = "h1"
  /\ lk_query = <<0, 0>>
  /\ lk_via = "none"
  /\ lk_result = None
  /\ tf_result = None
  /\ overflow_checks = FALSE
  /\ gr_fn = "none"
  /\ gr_index = Usize(0, 0)
  /\ gr_width = 0
  /\ gr_height = 0
  /\ gr_coords = Vec(0, 0)
  /\ gr_result = ResIdle
  /\ el_bytes = NotLevelJson
  /\ el_pc = "Idle"
  /\ el_error = "none"
  /\ el_asset = None
  /\ el_data = DataIdle
  /\ tl_args = NoTileArgs
  /\ tl_pc = "Idle"
  /\ grid_tile_map = <<>>
  /\ ig_i = 0
  /\ nonzero_map = <<>>
  /\ tl_fn = "none"
  /\ tl_cell = TilePos(0, 0)
  /\ tl_tile = None
  /\ tl_bundle = None
  /\ tr_fn = "none"
  /\ tr_entity = NoEntityCall
  /\ tr_transform = NoTransform
  /\ tr_grid = NoGridCall
  /\ tr_corner = Vec(0, 0)
  /\ tr_centered = Vec(0, 0)
  /\ sa_pc = "Idle"
  /\ sa_size = <<0, 0>>
  /\ sa_x = 0
  /\ sa_y = 0
  /\ sa_func_calls = <<>>
  /\ sa_maker_calls = <<>>
  /\ sa_tiles = <<>>

Next ==
  \/ StartLoad
  \/ ResolveLevel
  \/ ResolveTilesets
  \/ \E with_int_grid_image \in BOOLEAN : Publish(with_int_grid_image)

Spec == Init /\ [][Next]_vars

InitLookup ==
  /\ \/ registry \in Registries
     \/ registry \in ExampleRegistries
  /\ lk_default \in Handlers
  /\ lk_query = <<0, 0>>
  /\ lk_via = "none"
  /\ lk_result = None
  /\ tf_result = None
  /\ overflow_checks = FALSE
  /\ gr_fn = "none"
  /\ gr_index = Usize(0, 0)
  /\ gr_width = 0
  /\ gr_height = 0
  /\ gr_coords = Vec(0, 0)
  /\ gr_result = ResIdle
  /\ external_levels_feature = FALSE
  /\ manifest = NotJson
  /\ pl_pc = "Idle"
  /\ pl_error = "none"
  /\ pl_level_index = 0
  /\ level_map = <<>>
  /\ background_images = <<>>
  /\ external_level_paths = <<>>
  /\ tileset_rel_paths = <<>>
  /\ tileset_map = <<>>
  /\ pl_warnings = <<>>
  /\ labeled_assets = {}
  /\ project_asset = None
  /\ pl_publish_count = 0
  /\ el_bytes = NotLevelJson
  /\ el_pc = "Idle"
  /\ el_error = "none"
  /\ el_asset = None
  /\ el_data = DataIdle
  /\ tl_args = NoTileArgs
  /\ tl_pc = "Idle"
  /\ grid_tile_map = <<>>
  /\ ig_i = 0
  /\ nonzero_map = <<>>
  /\ tl_fn = "none"
  /\ tl_cell = TilePos(0, 0)
  /\ tl_tile = None
  /\ tl_bundle = None
  /\ tr_fn = "none"
  /\ tr_entity = NoEntityCall
  /\ tr_transform = NoTransform
  /\ tr_grid = NoGridCall
  /\ tr_corner = Vec(0, 0)
  /\ tr_centered = Vec(0, 0)
  /\ sa_pc = "Idle"
  /\ sa_size = <<0, 0>>
  /\ sa_x = 0
  /\ sa_y = 0
  /\ sa_func_calls = <<>>
  /\ sa_maker_calls = <<>>
  /\ sa_tiles = <<>>

NextLookup ==
  \/ \E a \in TestArgs, b \in TestArgs : GetOrDefault(a, b)
  \/ \E a \in KeyVals, b \in KeyVals : TryEachOnRegistry(a, b)
  \/ \E a \in TestArgs, b \in TestArgs : TryEachOnTestFunc(a, b)

SpecLookup == InitLookup /\ [][NextLookup]_vars

InitGrid ==
  /\ overflow_checks \in BOOLEAN
  /\ gr_fn = "none"
  /\ gr_index = Usize(0, 0)
  /\ gr_width = 0
  /\ gr_height = 0
  /\ gr_coords = Vec(0, 0)
  /\ gr_result = ResIdle
  /\ registry = <<>>
  /\ lk_default = "h1"
  /\ lk_query = <<0, 0>>
  /\ lk_via = "none"
  /\ lk_result = None
  /\ tf_result = None
  /\ external_levels_feature = FALSE
  /\ manifest = NotJson
  /\ pl_pc = "Idle"
  /\ pl_error = "none"
  /\ pl_level_index = 0
  /\ level_map = <<>>
  /\ background_images = <<>>
  /\ external_level_paths = <<>>
  /\ tileset_rel_paths = <<>>
  /\ tileset_map = <<>>
  /\ pl_warnings = <<>>
  /\ labeled_assets = {}
  /\ project_asset = None
  /\ pl_publish_count = 0
  /\ el_bytes = NotLevelJson
  /\ el_pc = "Idle"
  /\ el_error = "none"
  /\ el_asset = None
  /\ el_data = DataIdle
  /\ tl_args = NoTileArgs
  /\ tl_pc = "Idle"
  /\ grid_tile_map = <<>>
  /\ ig_i = 0
  /\ nonzero_map = <<>>
  /\ tl_fn = "none"
  /\ tl_cell = TilePos(0, 0)
  /\ tl_tile = None
  /\ tl_bundle = None
  /\ tr_fn = "none"
  /\ tr_entity = NoEntityCall
  /\ tr_transform = NoTransform
  /\ tr_grid = NoGridCall
  /\ tr_corner = Vec(0, 0)
  /\ tr_centered = Vec(0, 0)
  /\ sa_pc = "Idle"
  /\ sa_size = <<0, 0>>
  /\ sa_x = 0
  /\ sa_y = 0
  /\ sa_func_calls = <<>>
  /\ sa_maker_calls = <<>>
  /\ sa_tiles = <<>>

NextGrid ==
  \/ \E call \in IntGridCalls : IntGridIndexToTilePos(call[1], call[2], call[3])
  \/ \E c \in GridCoords, h \in GridHeights : GridCoordsToTilePos(c, h)
  \/ \E p \in GridCoords, h \in GridHeights : TilePosToGridCoords(p, h)

SpecGrid == InitGrid /\ [][NextGrid]_vars

\* The asset server hands LdtkExternalLevelLoader::load the bytes of a .ldtkl
\* file.
InitExternalLevel ==
  /\ el_bytes \in LevelFiles
  /\ el_pc = "Unloaded"
  /\ el_error = "none"
  /\ el_asset = None
  /\ el_data = DataIdle
  /\ registry = <<>>
  /\ lk_default = "h1"
  /\ lk_query = <<0, 0>>
  /\ lk_via = "none"
  /\ lk_result = None
  /\ tf_result = None
  /\ overflow_checks = FALSE
  /\ gr_fn = "none"
  /\ gr_index = Usize(0, 0)
  /\ gr_width = 0
  /\ gr_height = 0
  /\ gr_coords = Vec(0, 0)
  /\ gr_result = ResIdle
  /\ external_levels_feature = FALSE
  /\ manifest = NotJson
  /\ pl_pc = "Idle"
  /\ pl_error = "none"
  /\ pl_level_index = 0
  /\ level_map = <<>>
  /\ background_images = <<>>
  /\ external_level_paths = <<>>
  /\ tileset_rel_paths = <<>>
  /\ tileset_map = <<>>
  /\ pl_warnings = <<>>
  /\ labeled_assets = {}
  /\ project_asset = None
  /\ pl_publish_count = 0
  /\ tl_args = NoTileArgs
  /\ tl_pc = "Idle"
  /\ grid_tile_map = <<>>
  /\ ig_i = 0
  /\ nonzero_map = <<>>
  /\ tl_fn = "none"
  /\ tl_cell = TilePos(0, 0)
  /\ tl_tile = None
  /\ tl_bundle = None
  /\ tr_fn = "none"
  /\ tr_entity = NoEntityCall
  /\ tr_transform = NoTransform
  /\ tr_grid = NoGridCall
  /\ tr_corner = Vec(0, 0)
  /\ tr_centered = Vec(0, 0)
  /\ sa_pc = "Idle"
  /\ sa_size = <<0, 0>>
  /\ sa_x = 0
  /\ sa_y = 0
  /\ sa_func_calls = <<>>
  /\ sa_maker_calls = <<>>
  /\ sa_tiles = <<>>

NextExternalLevel ==
  \/ LoadExternalLevel
  \/ CallData

SpecExternalLevel == InitExternalLevel /\ [][NextExternalLevel]_vars

\* The makers are built for a layer, in either build.
InitTiles ==
  /\ tl_args \in TileCalls
  /\ tl_pc = "Start"
  /\ grid_tile_map = <<>>
  /\ ig_i = 0
  /\ nonzero_map = <<>>
  /\ tl_fn = "none"
  /\ tl_cell = TilePos(0, 0)
  /\ tl_tile = None
  /\ tl_bundle = None
  /\ overflow_checks \in BOOLEAN
  /\ gr_fn = "none"
  /\ gr_index = Usize(0, 0)
  /\ gr_width = 0
  /\ gr_height = 0
  /\ gr_coords = Vec(0, 0)
  /\ gr_result = ResIdle
  /\ registry = <<>>
  /\ lk_default = "h1"
  /\ lk_query = <<0, 0>>
  /\ lk_via = "none"
  /\ lk_result = None
  /\ tf_result = None
  /\ external_levels_feature = FALSE
  /\ manifest = NotJson
  /\ pl_pc = "Idle"
  /\ pl_error = "none"
  /\ pl_level_index = 0
  /\ level_map = <<>>
  /\ background_images = <<>>
  /\ external_level_paths = <<>>
  /\ tileset_rel_paths = <<>>
  /\ tileset_map = <<>>
  /\ pl_warnings = <<>>
  /\ labeled_assets = {}
  /\ project_asset = None
  /\ pl_publish_count = 0
  /\ el_bytes = NotLevelJson
  /\ el_pc = "Idle"
  /\ el_error = "none"
  /\ el_asset = None
  /\ el_data = DataIdle
  /\ tr_fn = "none"
  /\ tr_entity = NoEntityCall
  /\ tr_transform = NoTransform
  /\ tr_grid = NoGridCall
  /\ tr_corner = Vec(0, 0)
  /\ tr_centered = Vec(0, 0)
  /\ sa_pc = "Idle"
  /\ sa_size = <<0, 0>>
  /\ sa_x = 0
  /\ sa_y = 0
  /\ sa_func_calls = <<>>
  /\ sa_maker_calls = <<>>
  /\ sa_tiles = <<>>

NextTiles ==
  \/ MakeTileMaker
  \/ \E tile_pos \in Cells : TileMakerCall(tile_pos)
  \/ WrapTileMaker
  \/ NonzeroMapStep
  \/ WrapIfIntGridNonzero
  \/ \E tile_pos \in Cells : BundleMakerCall(tile_pos)
  \/ \E map_size \in MapSizes, chunk_size \in ChunkSizes :
       StartSetAllTiles(map_size, chunk_size)
  \/ SetTileStep

SpecTiles == InitTiles /\ [][NextTiles]_vars

InitTransform ==
  /\ overflow_checks \in BOOLEAN
  /\ gr_fn = "none"
  /\ gr_index = Usize(0, 0)
  /\ gr_width = 0
  /\ gr_height = 0
  /\ gr_coords = Vec(0, 0)
  /\ gr_result = ResIdle
  /\ registry = <<>>
  /\ lk_default = "h1"
  /\ lk_query = <<0, 0>>
  /\ lk_via = "none"
  /\ lk_result = None
  /\ tf_result = None
  /\ external_levels_feature = FALSE
  /\ manifest = NotJson
  /\ pl_pc = "Idle"
  /\ pl_error = "none"
  /\ pl_level_index = 0
  /\ level_map = <<>>
  /\ background_images = <<>>
  /\ external_level_paths = <<>>
  /\ tileset_rel_paths = <<>>
  /\ tileset_map = <<>>
  /\ pl_warnings = <<>>
  /\ labeled_assets = {}
  /\ project_asset = None
  /\ pl_publish_count = 0
  /\ el_bytes = NotLevelJson
  /\ el_pc = "Idle"
  /\ el_error = "none"
  /\ el_asset = None
  /\ el_data = DataIdle
  /\ tl_args = NoTileArgs
  /\ tl_pc = "Idle"
  /\ grid_tile_map = <<>>
  /\ ig_i = 0
  /\ nonzero_map = <<>>
  /\ tl_fn = "none"
  /\ tl_cell = TilePos(0, 0)
  /\ tl_tile = None
  /\ tl_bundle = None
  /\ tr_fn = "none"
  /\ tr_entity = NoEntityCall
  /\ tr_transform = NoTransform
  /\ tr_grid = NoGridCall
  /\ tr_corner = Vec(0, 0)
  /\ tr_centered = Vec(0, 0)
  /\ sa_pc = "Idle"
  /\ sa_size = <<0, 0>>
  /\ sa_x = 0
  /\ sa_y = 0
  /\ sa_func_calls = <<>>
  /\ sa_maker_calls = <<>>
  /\ sa_tiles = <<>>

NextTransform ==
  \/ \E call \in EntityCalls : CalculateTransform(call)
  \/ \E call \in GridCalls : GridToTranslation(call)
  \/ \E call \in GridCalls : TilePosToTranslation(call)

SpecTransform == InitTransform /\ [][NextTransform]_vars

====
